---------------------------- MODULE Spec2Model ----------------------------
(***************************************************************************)
(* A model of codeforces2pdf: the HTML -> TeX converters of                *)
(* src/convert_html_to_tex.py and src/upload_to_polygon.py.                *)
(*                                                                         *)
(* Text is a sequence of characters; a character is a one-character        *)
(* string ("a", "$", "\n"), and a non-ASCII character is the string of its *)
(* code point ("U+2264").  Python's None is the value None below, which is *)
(* no text the program can produce.                                        *)
(***************************************************************************)
EXTENDS Integers, Sequences, FiniteSets, TLC

VARIABLES
    pc,           \* the position of the call being modelled ("ready", ..., "done")
    text,         \* escape_tex: the argument
    escaped,      \* escape_tex: the value returned
    collector,    \* ResourceCollector._resources: the (name, content) items, in
                  \* insertion order
    ret,          \* add_image: the value returned by the last call
    requests,     \* history: one entry per add_image call made on the collector
    root,         \* the node (or section root) a renderer is called on
    marker,       \* has_tex_marker: the value returned
    tex_mode,     \* render: the in_tex argument
    skip_set,     \* clean_html_content: the skip_classes argument
    io,           \* what the file system and the network answer during the walk
    calls,        \* history: the add_image calls the walk made
    rendered,     \* render: the value returned
    field_html,   \* clean_html_content: the value returned
    with_breaks,  \* add_paragraph_breaks: the value returned
    converted,    \* convert_node: the value returned
    statement,    \* the problem statement element the samples are taken from
    pairs,        \* render_samples: its pairs when it returns
    samples_tex,  \* render_samples: the value returned
    samples,      \* parse_html_statements: the samples of the statement
    document,     \* the div.problem-statement elements of the HTML file, in order
    cursor,       \* the number of statements the loop has gone through
    parsed,       \* parse_html_statements: the exception raised (or none) and the
                  \* ProblemStatement list built so far
    trace,        \* history: the add_image calls made for each statement
    problem_tex,  \* render_problem: the exception raised (or none) and its pieces
    existing_problems,  \* main: the name -> id dictionary
    api_log,      \* history: the client.call requests issued, with their outcome
    upload,       \* upload_problem: where the call in progress is
    attempts      \* history: the polygon_name of every upload_problem call

escVars == <<text, escaped>>
colVars == <<collector, ret, requests>>
renVars == <<root, marker, tex_mode, skip_set, io, calls, rendered, field_html,
             with_breaks, converted>>
smpVars == <<statement, pairs, samples_tex, samples>>
parVars == <<document, cursor, parsed, trace, problem_tex>>
uplVars == <<existing_problems, api_log, upload, attempts>>
vars == <<pc, escVars, colVars, renVars, smpVars, parVars, uplVars>>

None == <<"<None>">>

\* No node: a section the statement does not have
NoTag == [kind |-> "none", name |-> "", attrs |-> <<>>, children |-> <<>>, text |-> <<>>]

\* The variables of the parts a specification does not use
EscIdle == text = <<>> /\ escaped = <<>>
ColIdle == collector = <<>> /\ ret = <<>> /\ requests = <<>>
RenIdle ==
    /\ root = NoTag /\ marker = FALSE /\ tex_mode = FALSE /\ skip_set = {}
    /\ io = <<>> /\ calls = <<>> /\ rendered = <<>> /\ field_html = <<>>
    /\ with_breaks = <<>> /\ converted = <<>>
SmpIdle == statement = NoTag /\ pairs = <<>> /\ samples_tex = <<>> /\ samples = <<>>
ParIdle ==
    /\ document = <<>> /\ cursor = 0 /\ parsed = <<>> /\ trace = <<>> /\ problem_tex = <<>>
UplIdle == existing_problems = <<>> /\ api_log = <<>> /\ upload = <<>> /\ attempts = <<>>

(***************************************************************************)
(* Bounds of the model.                                                    *)
(***************************************************************************)
MaxTextLen == 3
MaxCalls == 3
MaxChildren == 2
MaxClasses == 2

(***************************************************************************)
(* Python's str operations, on sequences of characters.                    *)
(***************************************************************************)
\* str.isspace() of the characters the model uses
IsSpace(ch) == ch \in {" ", "\n", "\r", "\t"}

RECURSIVE lstrip(_)
lstrip(s) == IF s # <<>> /\ IsSpace(Head(s)) THEN lstrip(Tail(s)) ELSE s

RECURSIVE rstrip(_)
rstrip(s) ==
    IF s # <<>> /\ IsSpace(s[Len(s)]) THEN rstrip(SubSeq(s, 1, Len(s) - 1)) ELSE s

strip(s) == lstrip(rstrip(s))

startswith(s, p) == Len(p) <= Len(s) /\ SubSeq(s, 1, Len(p)) = p

endswith(s, p) == Len(p) <= Len(s) /\ SubSeq(s, Len(s) - Len(p) + 1, Len(s)) = p

\* "p in s" for strings
contains(s, p) ==
    \E i \in 1..(Len(s) - Len(p) + 1) : SubSeq(s, i, i + Len(p) - 1) = p

UpperCase == <<"A", "B", "C", "D", "E", "F", "G", "H", "I", "J", "K", "L", "M",
               "N", "O", "P", "Q", "R", "S", "T", "U", "V", "W", "X", "Y", "Z">>
LowerCase == <<"a", "b", "c", "d", "e", "f", "g", "h", "i", "j", "k", "l", "m",
               "n", "o", "p", "q", "r", "s", "t", "u", "v", "w", "x", "y", "z">>

lower_char(ch) ==
    IF \E i \in 1..26 : UpperCase[i] = ch
    THEN LowerCase[CHOOSE i \in 1..26 : UpperCase[i] = ch]
    ELSE ch

\* str.lower()
lower(s) == [i \in 1..Len(s) |-> lower_char(s[i])]

\* "".join(parts)
RECURSIVE concat(_)
concat(parts) ==
    IF parts = <<>> THEN <<>>
    ELSE IF Len(parts) = 1 THEN parts[1]
    ELSE concat(SubSeq(parts, 1, Len(parts) \div 2))
             \o concat(SubSeq(parts, (Len(parts) \div 2) + 1, Len(parts)))

\* sep.join(parts)
join(sep, parts) ==
    concat([i \in 1..(2 * Len(parts) - 1) |->
                IF i % 2 = 1 THEN parts[(i + 1) \div 2] ELSE sep])

\* All sequences over S of length at most n
SeqsUpTo(S, n) == UNION {[1..k -> S] : k \in 0..n}

(***************************************************************************)
(* The Escaper: convert_html_to_tex.escape_tex.                            *)
(***************************************************************************)
ReservedChars == {"\\", "{", "}", "#", "$", "%", "&", "_", "^", "~"}

LATEX_SPECIALS ==
    [ch \in ReservedChars |->
        CASE ch = "\\" -> <<"\\", "t", "e", "x", "t", "b", "a", "c", "k", "s",
                            "l", "a", "s", "h", "{", "}">>
          [] ch = "{" -> <<"\\", "{">>
          [] ch = "}" -> <<"\\", "}">>
          [] ch = "#" -> <<"\\", "#">>
          [] ch = "$" -> <<"\\", "$">>
          [] ch = "%" -> <<"\\", "%">>
          [] ch = "&" -> <<"\\", "&">>
          [] ch = "_" -> <<"\\", "_">>
          [] ch = "^" -> <<"\\", "t", "e", "x", "t", "a", "s", "c", "i", "i",
                           "c", "i", "r", "c", "u", "m", "{", "}">>
          [] ch = "~" -> <<"\\", "t", "e", "x", "t", "a", "s", "c", "i", "i",
                           "t", "i", "l", "d", "e", "{", "}">>]

\* A plausible bug: the caret is forgotten in the table lookup.
SpecialsGet_NoCaret(ch) ==
    IF ch \in DOMAIN LATEX_SPECIALS \ {"^"} THEN LATEX_SPECIALS[ch] ELSE <<ch>>

\* LATEX_SPECIALS.get(ch, ch)
SpecialsGet(ch) == IF ch \in DOMAIN LATEX_SPECIALS THEN LATEX_SPECIALS[ch] ELSE <<ch>>

\* for ch in text: escaped.append(LATEX_SPECIALS.get(ch, ch)); "".join(escaped)
RECURSIVE escape_tex_loop(_, _)
escape_tex_loop(t, acc) ==
    IF t = <<>> THEN acc
    ELSE escape_tex_loop(Tail(t), Append(acc, SpecialsGet(Head(t))))

escape_tex(t) == concat(escape_tex_loop(t, <<>>))

(***************************************************************************)
(* The Resource Collector: upload_to_polygon.ResourceCollector.            *)
(*                                                                         *)
(* What the file system or the network answers is an input of each call:   *)
(* Missing (the local file does not exist, requests.get raised a           *)
(* RequestException) or the bytes read.                                    *)
(***************************************************************************)
Missing == <<"<Missing>">>

Digits == <<"0", "1", "2", "3", "4", "5", "6", "7", "8", "9">>

\* str(n) of a natural number
RECURSIVE str_int(_)
str_int(n) == IF n < 10 THEN <<Digits[n + 1]>> ELSE str_int(n \div 10) \o <<Digits[(n % 10) + 1]>>

\* The index of the k-th character of s that is in the set marks (k >= 1)
nth_index(s, marks, k) ==
    CHOOSE i \in 1..Len(s) :
        s[i] \in marks /\ Cardinality({j \in 1..i : s[j] \in marks}) = k

\* The pieces of s between the characters at the indices ends[1] < ends[2] < ...,
\* the k-th piece starting after ends[k - 1] and stopping before starts[k];
\* the piece after the last index is kept when keep_last
slices(s, starts, ends, keep_last) ==
    [k \in 1..(Len(ends) + IF keep_last THEN 1 ELSE 0) |->
        SubSeq(s,
               IF k = 1 THEN 1 ELSE ends[k - 1] + 1,
               IF k > Len(ends) THEN Len(s) ELSE starts[k] - 1)]

\* text.split(sep) for a one-character separator: the pieces, empty ones kept
split_on(s, sep) ==
    LET at == [k \in 1..Cardinality({j \in 1..Len(s) : s[j] = sep}) |->
                    nth_index(s, {sep}, k)]
    IN  slices(s, at, at, TRUE)

\* The index of the first character of s that is in the set stops, or Len(s) + 1
RECURSIVE find_first(_, _, _)
find_first(s, stops, i) ==
    IF i > Len(s) \/ s[i] \in stops THEN i ELSE find_first(s, stops, i + 1)

IsAlpha(ch) == \E i \in 1..26 : ch = UpperCase[i] \/ ch = LowerCase[i]
IsSchemeChar(ch) ==
    \/ IsAlpha(ch)
    \/ \E i \in 1..10 : ch = Digits[i]
    \/ ch \in {"+", "-", "."}

\* urllib.parse.urlparse(src), as far as add_image reads it: the scheme (in lower
\* case) and the path, without the network location, the query and the fragment.
urlparse(src) ==
    LET colon == find_first(src, {":"}, 1)
        has_scheme ==
            /\ 1 < colon /\ colon <= Len(src)
            /\ IsAlpha(src[1])
            /\ \A i \in 1..(colon - 1) : IsSchemeChar(src[i])
        scheme == IF has_scheme THEN lower(SubSeq(src, 1, colon - 1)) ELSE <<>>
        rest == IF has_scheme THEN SubSeq(src, colon + 1, Len(src)) ELSE src
        after_netloc ==
            IF startswith(rest, <<"/", "/">>)
            THEN SubSeq(rest, find_first(rest, {"/", "?", "#"}, 3), Len(rest))
            ELSE rest
        path == SubSeq(after_netloc, 1, find_first(after_netloc, {"?", "#"}, 1) - 1)
    IN  [scheme |-> scheme, path |-> path]

\* pathlib: the parts of a path, without the empty ones and the "." ones
RECURSIVE path_parts(_)
path_parts(pieces) ==
    IF pieces = <<>> THEN <<>>
    ELSE IF Head(pieces) \in {<<>>, <<".">>} THEN path_parts(Tail(pieces))
    ELSE <<Head(pieces)>> \o path_parts(Tail(pieces))

\* Path(path).name: the last part, or "" when there is none
path_name(path) ==
    LET parts == path_parts(split_on(path, "/"))
    IN  IF parts = <<>> THEN <<>> ELSE parts[Len(parts)]

\* Path.resolve(): ".." steps back over the part before it
RECURSIVE resolve_parts(_, _)
resolve_parts(parts, done) ==
    IF parts = <<>> THEN done
    ELSE IF Head(parts) = <<".", ".">>
         THEN resolve_parts(Tail(parts),
                            IF done = <<>> THEN done ELSE SubSeq(done, 1, Len(done) - 1))
    ELSE resolve_parts(Tail(parts), Append(done, Head(parts)))

\* The name of base_dir, for a source that resolves to base_dir itself
BaseDirName == <<"b", "a", "s", "e">>

\* (self.base_dir / Path(src)).resolve().name, for a src below base_dir
resolved_name(src) ==
    LET parts == resolve_parts(path_parts(split_on(src, "/")), <<>>)
    IN  IF parts = <<>> THEN BaseDirName ELSE parts[Len(parts)]

Http == <<"h", "t", "t", "p">>
Https == <<"h", "t", "t", "p", "s">>

is_remote(src) == urlparse(src).scheme \in {Http, Https}

\* name in self._resources
has_resource(res, name) == \E i \in 1..Len(res) : res[i].name = name

\* The name add_image gives the resource of src when the collector holds nres
\* resources (lines 282 and 295)
resource_name(src, nres) ==
    IF is_remote(src)
    THEN LET name == path_name(urlparse(src).path)
         IN  IF name # <<>> THEN name
             ELSE <<"i", "m", "a", "g", "e", "_">> \o str_int(nres + 1)
                      \o <<".", "p", "n", "g">>
    ELSE resolved_name(src)

\* ResourceCollector._read_dimensions: the (width, height) PIL reads, or None
\* (NoDimensions) for bytes it cannot decode
NoDimensions == <<>>

read_dimensions(content) ==
    CASE content = <<"P", "N", "G", "1">> -> <<3, 2>>
      [] content = <<"P", "N", "G", "2">> -> <<10, 4>>
      [] OTHER -> NoDimensions

\* A plausible bug: the assignment without the membership test, so that the last
\* content registered under a name replaces the first.
store_overwrite(res, name, content) ==
    IF has_resource(res, name)
    THEN [i \in 1..Len(res) |->
            IF res[i].name = name THEN [name |-> name, content |-> content] ELSE res[i]]
    ELSE Append(res, [name |-> name, content |-> content])

\* if name not in self._resources and content is not None:
\*     self._resources[name] = content
store(res, name, content) ==
    IF ~has_resource(res, name) /\ content # None
    THEN Append(res, [name |-> name, content |-> content])
    ELSE res

IncludeGraphics == <<"\\", "i", "n", "c", "l", "u", "d", "e", "g", "r", "a", "p", "h", "i", "c", "s">>
BeginCenter == <<"\n", "\\", "b", "e", "g", "i", "n", "{", "c", "e", "n", "t", "e", "r", "}", "\n", " ", " ">>
EndCenter == <<"\n", "\\", "e", "n", "d", "{", "c", "e", "n", "t", "e", "r", "}", "\n">>

\* f"\\includegraphics{include_opts}{{{name}}}"
include_command(name, content) ==
    LET dimensions == IF content # None THEN read_dimensions(content) ELSE NoDimensions
        include_opts ==
            IF dimensions # NoDimensions
            THEN <<"[", "b", "b", "=", "0", " ", "0", " ">> \o str_int(dimensions[1])
                     \o <<" ">> \o str_int(dimensions[2]) \o <<"]">>
            ELSE <<>>
    IN  IncludeGraphics \o include_opts \o <<"{">> \o name \o <<"}">>

\* A plausible bug: the name of a source that was not resolved is registered
\* all the same, with no bytes.
add_image_registers_unresolved(res, src, inline, outcome) ==
    IF src = None \/ src = <<>> THEN [ret |-> None, res |-> res]
    ELSE IF outcome = Missing
    THEN [ret |-> None, res |-> store(res, resource_name(src, Len(res)), <<>>)]
    ELSE [ret |-> IF inline
                  THEN include_command(resource_name(src, Len(res)), outcome)
                  ELSE BeginCenter \o include_command(resource_name(src, Len(res)), outcome)
                           \o EndCenter,
          res |-> store(res, resource_name(src, Len(res)), outcome)]

\* ResourceCollector.add_image(src, inline=inline) on a collector holding res,
\* where the file system or the network answers outcome: the value returned
\* and the resources afterwards.
add_image(res, src, inline, outcome) ==
    IF src = None \/ src = <<>> THEN [ret |-> None, res |-> res]
    ELSE IF outcome = Missing THEN [ret |-> None, res |-> res]
    ELSE LET name == resource_name(src, Len(res))
             command == include_command(name, outcome)
         IN  [ret |-> IF inline THEN command ELSE BeginCenter \o command \o EndCenter,
              res |-> store(res, name, outcome)]

\* ResourceCollector.resources(): the (name, content) pairs, in dict order
resources(res) == res

(***************************************************************************)
(* The markup tree (bs4): a text leaf (NavigableString) or an element      *)
(* (Tag) with a name, its attributes in document order and its children.   *)
(* An attribute value is a list of strings (class) or one string.          *)
(***************************************************************************)
TextNode(t) ==
    [kind |-> "text", name |-> "", attrs |-> <<>>, children |-> <<>>, text |-> t]

Element(name, attrs, children) ==
    [kind |-> "tag", name |-> name, attrs |-> attrs, children |-> children, text |-> <<>>]

ListAttr(name, items) == [name |-> name, list |-> TRUE, items |-> items]
StrAttr(name, value) == [name |-> name, list |-> FALSE, items |-> <<value>>]

\* name in node.attrs
has_attr(node, a) == \E i \in 1..Len(node.attrs) : node.attrs[i].name = a

\* node.attrs[name]
attr_value(node, a) ==
    node.attrs[CHOOSE i \in 1..Len(node.attrs) : node.attrs[i].name = a]

\* What "for x in value" yields: the items of a list, the characters of a str
iter_value(v) ==
    IF v.list THEN v.items ELSE [i \in 1..Len(v.items[1]) |-> <<v.items[1][i]>>]

\* node.get(name): the string of a string-valued attribute, or None
get_str(node, a) == IF has_attr(node, a) THEN attr_value(node, a).items[1] ELSE None

\* [cls.lower() for cls in node.get("class", []) if isinstance(cls, str)]
class_list(node) ==
    IF has_attr(node, "class")
    THEN LET items == iter_value(attr_value(node, "class"))
         IN  [i \in 1..Len(items) |-> lower(items[i])]
    ELSE <<>>

Tex == <<"t", "e", "x">>

\* A plausible bug: the comparison without .lower().
value_has_tex_cased(v) == \E i \in 1..Len(v.items) : contains(v.items[i], Tex)

\* "tex" in value.lower() of one attribute value (any item of a list)
value_has_tex(v) == \E i \in 1..Len(v.items) : contains(lower(v.items[i]), Tex)

\* upload_to_polygon.has_tex_marker
has_tex_marker(tag) == \E i \in 1..Len(tag.attrs) : value_has_tex(tag.attrs[i])

\* Tag.string: the text of the one child, through single-child elements
RECURSIVE node_string(_)
node_string(node) ==
    IF node.kind = "text" THEN node.text
    ELSE IF Len(node.children) = 1 THEN node_string(node.children[1])
    ELSE None

\* Tag.strings: the texts of all the leaves below node, in document order
RECURSIVE node_strings(_)
node_strings(node) ==
    IF node.kind = "text" THEN <<node.text>>
    ELSE concat([i \in 1..Len(node.children) |-> node_strings(node.children[i])])

(***************************************************************************)
(* The Tree Renderer of upload_to_polygon: clean_html_content and its      *)
(* render.  ctx holds what render reads from the enclosing call:           *)
(*   skip  skip_classes_lower                                              *)
(*   rc    whether a resource_collector was passed                         *)
(*   io    what the file system or the network answers the add_image       *)
(*         calls, the k-th call getting io[k]                              *)
(* and st is the collector as the walk goes: its resources (res) and the   *)
(* add_image calls made so far (calls).                                    *)
(***************************************************************************)
block_tags == {"p", "div", "li", "ul", "ol"}

MathJax == <<"m", "a", "t", "h", "j", "a", "x">>
MathSlash == <<"m", "a", "t", "h", "/">>
TexGraphics == <<"t", "e", "x", "-", "g", "r", "a", "p", "h", "i", "c", "s">>
TexFormula == <<"t", "e", "x", "-", "f", "o", "r", "m", "u", "l", "a">>

\* The answer the next add_image call gets
next_outcome(ctx, st) == ctx.io[(Len(st.calls) % Len(ctx.io)) + 1]

\* The collector after an add_image call that returned r: its resources, and
\* the call added to the calls made so far
collected(st, src, inline, outcome, r) ==
    [ret |-> r.ret,
     st |-> [res |-> r.res,
             calls |-> Append(st.calls,
                              [src |-> src, inline |-> inline,
                               outcome |-> IF src = None \/ src = <<>>
                                           THEN Missing ELSE outcome,
                               before |-> st.res, after |-> r.res,
                               ret |-> r.ret])]]

\* resource_collector.add_image(src, inline=inline) during the walk
collect(ctx, st, src, inline) ==
    collected(st, src, inline, next_outcome(ctx, st),
              add_image(st.res, src, inline, next_outcome(ctx, st)))

\* if image_tex: return image_tex, else nothing (lines 203-204, 207-210)
image_tex_or_empty(r) == [out |-> IF r.ret # None THEN r.ret ELSE <<>>, st |-> r.st]

\* A plausible bug: the formula image added without inline=True.
render_img_formula_block(classes_lower, src, ctx, st) ==
    IF \E i \in 1..Len(classes_lower) : contains(classes_lower[i], TexFormula)
    THEN image_tex_or_empty(collect(ctx, st, src, FALSE))
    ELSE [out |-> <<>>, st |-> st]

\* The tex-formula test of the image branch (lines 205-208)
render_img_formula(classes_lower, src, ctx, st) ==
    IF \E i \in 1..Len(classes_lower) : contains(classes_lower[i], TexFormula)
    THEN image_tex_or_empty(collect(ctx, st, src, TRUE))
    ELSE [out |-> <<>>, st |-> st]

\* The tex-graphics test of the image branch, after its add_image call returned
\* first (lines 201-204)
render_img_graphics(first, classes_lower, src, ctx) ==
    IF first.ret # None THEN image_tex_or_empty(first)
    ELSE render_img_formula(classes_lower, src, ctx, first.st)

\* The image branch of render (lines 198-210)
render_img(node, ctx, st) ==
    IF ~ctx.rc THEN [out |-> <<>>, st |-> st]
    ELSE IF \E i \in 1..Len(class_list(node)) : contains(class_list(node)[i], TexGraphics)
    THEN render_img_graphics(collect(ctx, st, get_str(node, "src"), FALSE),
                             class_list(node), get_str(node, "src"), ctx)
    ELSE render_img_formula(class_list(node), get_str(node, "src"), ctx, st)

\* A plausible bug: the test for delimiters already there is left out.
wrap_formula_again(content, node_is_tex, in_tex) ==
    IF node_is_tex /\ ~in_tex
    THEN LET stripped == strip(content)
         IN  IF stripped # <<>> THEN <<"$">> \o stripped \o <<"$">> ELSE stripped
    ELSE IF node_is_tex THEN strip(content)
    ELSE content

\* The wrapping of a marker-classified node's rendered children (lines 225-232)
wrap_formula(content, node_is_tex, in_tex) ==
    IF node_is_tex /\ ~in_tex
    THEN LET stripped == strip(content)
         IN  IF stripped # <<>> /\ ~(startswith(stripped, <<"$">>) /\ endswith(stripped, <<"$">>))
             THEN <<"$">> \o stripped \o <<"$">>
             ELSE stripped
    ELSE IF node_is_tex THEN strip(content)
    ELSE content

\* A plausible bug: the separator appended to the untrimmed content.
close_block_untrimmed(name, content) ==
    IF name \in block_tags THEN content \o <<"\n">> ELSE content

\* return content.strip() + "\n" for a block tag (lines 234-237)
close_block(name, content) ==
    IF name \in block_tags THEN strip(content) \o <<"\n">> ELSE content

\* A plausible bug: the leaf escaped as convert_node escapes it.
render_leaf_escaped(node) == escape_tex(node.text)

\* return str(node) for a text leaf (lines 177-178)
render_leaf(node) == node.text

RECURSIVE render(_, _, _, _)
RECURSIVE render_children(_, _, _, _)

\* first + "".join(the others), the collector going from one child to the next
prepend(out, rest) == [out |-> out \o rest.out, st |-> rest.st]

join_after(first, others, in_tex, ctx) ==
    prepend(first.out, render_children(others, in_tex, ctx, first.st))

\* "".join(render(child, in_tex) for child in children)
render_children(children, in_tex, ctx, st) ==
    IF children = <<>> THEN [out |-> <<>>, st |-> st]
    ELSE join_after(render(Head(children), in_tex, ctx, st), Tail(children), in_tex, ctx)

\* What render makes of the rendered children (kids) of an element that is
\* none of the special cases (lines 215-237)
render_element(node, in_tex, node_is_tex, kids) ==
    IF node.name \in {"sup", "sub"}
    THEN IF in_tex \/ node_is_tex
         THEN [out |-> <<IF node.name = "sup" THEN "^" ELSE "_">> \o <<"{">>
                           \o strip(kids.out) \o <<"}">>,
               st |-> kids.st]
         ELSE kids
    ELSE [out |-> close_block(node.name, wrap_formula(kids.out, node_is_tex, in_tex)),
          st |-> kids.st]

\* The math script branch of render (lines 189-194)
render_script(script_type, string, st) ==
    IF startswith(script_type, MathSlash) /\ strip(string) # <<>>
    THEN [out |-> <<"$">> \o strip(string) \o <<"$">>, st |-> st]
    ELSE [out |-> <<>>, st |-> st]

\* A plausible bug: only the first class of the element looked up in the skip-set.
suppressed_first_class(classes, ctx) ==
    \/ ctx.skip # {} /\ classes # <<>> /\ classes[1] \in ctx.skip
    \/ \E i \in 1..Len(classes) : startswith(classes[i], MathJax)

\* The classes of an element that suppress it: a skipped class, or a class of
\* MathJax output (lines 180-187)
suppressed(classes, ctx) ==
    \/ ctx.skip # {} /\ \E i \in 1..Len(classes) : classes[i] \in ctx.skip
    \/ \E i \in 1..Len(classes) : startswith(classes[i], MathJax)

\* render(node, in_tex) of clean_html_content (lines 176-237)
render(node, in_tex, ctx, st) ==
    IF node.kind = "text" THEN [out |-> render_leaf(node), st |-> st]
    ELSE IF node.kind # "tag" THEN [out |-> <<>>, st |-> st]
    ELSE IF suppressed(class_list(node), ctx) THEN [out |-> <<>>, st |-> st]
    ELSE IF node.name = "script"
    THEN render_script(IF has_attr(node, "type") THEN get_str(node, "type") ELSE <<>>,
                       IF node_string(node) = None THEN <<>> ELSE node_string(node), st)
    ELSE IF node.name = "br" THEN [out |-> <<"\n">>, st |-> st]
    ELSE IF node.name = "img" THEN render_img(node, ctx, st)
    ELSE render_element(node, in_tex, has_tex_marker(node),
                        render_children(node.children, in_tex \/ has_tex_marker(node),
                                        ctx, st))

\* raw_text.splitlines(): the lines, without their line boundary ("\n", "\r" or
\* "\r\n"); no empty last line after a final boundary
splitlines(s) ==
    LET \* the indices where a line boundary ends: a "\n", or a "\r" no "\n" follows
        closes == {i \in 1..Len(s) :
                     \/ s[i] = "\n"
                     \/ s[i] = "\r" /\ ~(i < Len(s) /\ s[i + 1] = "\n")}
        ends == [k \in 1..Cardinality(closes) |->
                    CHOOSE i \in closes : Cardinality({j \in closes : j <= i}) = k]
        starts == [k \in 1..Len(ends) |->
                      IF s[ends[k]] = "\n" /\ ends[k] > 1 /\ s[ends[k] - 1] = "\r"
                      THEN ends[k] - 1 ELSE ends[k]]
    IN  slices(s, starts, ends, Len(s) > IF ends = <<>> THEN 0 ELSE ends[Len(ends)])

\* while lines and lines[-1] == "": lines.pop()
RECURSIVE pop_empty_lines(_)
pop_empty_lines(lines) ==
    IF lines # <<>> /\ lines[Len(lines)] = <<>>
    THEN pop_empty_lines(SubSeq(lines, 1, Len(lines) - 1))
    ELSE lines

\* The replacements of normalize_math_text, by code point
math_replacement(ch) ==
    CASE ch = "U+2264" -> <<"\\", "l", "e", "q">>
      [] ch = "U+2265" -> <<"\\", "g", "e", "q">>
      [] ch = "U+2260" -> <<"\\", "n", "e", "q">>
      [] ch = "U+00B1" -> <<"\\", "p", "m">>
      [] ch = "U+00D7" -> <<"\\", "t", "i", "m", "e", "s">>
      [] ch = "U+00F7" -> <<"\\", "d", "i", "v">>
      [] ch = "U+00B7" -> <<"\\", "c", "d", "o", "t">>
      [] ch = "U+22C5" -> <<"\\", "c", "d", "o", "t">>
      [] OTHER -> <<ch>>

\* upload_to_polygon.normalize_math_text: text.translate(translation)
normalize_math_text(t) == concat([i \in 1..Len(t) |-> math_replacement(t[i])])

\* A plausible bug: the final "or None" and the strip before it are left out.
finish_text_unstripped(raw_text) ==
    LET raw_lines == splitlines(raw_text)
        lines == pop_empty_lines([i \in 1..Len(raw_lines) |-> rstrip(raw_lines[i])])
    IN  normalize_math_text(join(<<"\n">>, lines))

\* The lines of clean_html_content after the walk (lines 240-245)
finish_text(raw_text) ==
    LET raw_lines == splitlines(raw_text)
        lines == pop_empty_lines([i \in 1..Len(raw_lines) |-> rstrip(raw_lines[i])])
        cleaned == strip(join(<<"\n">>, lines))
        normalized == normalize_math_text(cleaned)
    IN  IF normalized # <<>> THEN normalized ELSE None

\* The value clean_html_content returns after the walk, and the collector
finished(walk) == [ret |-> finish_text(walk.out), st |-> walk.st]

\* upload_to_polygon.clean_html_content(tag, skip_classes, resource_collector):
\* the value returned and the collector afterwards
clean_html_content(tag, skip_classes, ctx_rc, ctx_io, st) ==
    IF tag = NoTag THEN [ret |-> None, st |-> st]
    ELSE finished(render_children(tag.children, FALSE,
                                  [skip |-> {lower(cls) : cls \in skip_classes},
                                   rc |-> ctx_rc, io |-> ctx_io],
                                  st))

\* upload_to_polygon.add_paragraph_breaks
add_paragraph_breaks(t) ==
    IF t = None THEN None
    ELSE join(<<"\n", "\n">>, split_on(t, "\n"))

(***************************************************************************)
(* The Tree Renderer of convert_html_to_tex: convert_node, convert_inline  *)
(* and convert_list.                                                       *)
(***************************************************************************)
\* return content + "\n\n" for a paragraph (lines 79-81)
close_paragraph(content) == strip(content) \o <<"\n", "\n">>

RECURSIVE convert_node(_)
RECURSIVE convert_inline(_)

\* convert_html_to_tex.convert_inline
convert_inline(children) ==
    IF children = <<>> THEN <<>>
    ELSE convert_node(Head(children)) \o convert_inline(Tail(children))

\* tag.find_all("li", recursive=False)
RECURSIVE direct_items(_)
direct_items(children) ==
    IF children = <<>> THEN <<>>
    ELSE IF Head(children).kind = "tag" /\ Head(children).name = "li"
         THEN <<Head(children)>> \o direct_items(Tail(children))
    ELSE direct_items(Tail(children))

\* convert_html_to_tex.convert_list
convert_list(tag, ordered) ==
    LET lis == direct_items(tag.children)
        items == [i \in 1..Len(lis) |->
                    <<" ", " ", "\\", "i", "t", "e", "m", " ">>
                        \o strip(convert_inline(lis[i].children)) \o <<"\n">>]
        env == IF ordered THEN <<"e", "n", "u", "m", "e", "r", "a", "t", "e">>
               ELSE <<"i", "t", "e", "m", "i", "z", "e">>
    IN  <<"\\", "b", "e", "g", "i", "n", "{">> \o env \o <<"}", "\n">> \o concat(items)
            \o <<"\\", "e", "n", "d", "{">> \o env \o <<"}", "\n">>

\* convert_html_to_tex.convert_node
convert_node(node) ==
    IF node.kind = "text" THEN escape_tex(node.text)
    ELSE
    CASE node.name = "br" -> <<"\\", "\n">>
      [] node.name \in {"strong", "b"} ->
            <<"\\", "t", "e", "x", "t", "b", "f", "{">> \o convert_inline(node.children) \o <<"}">>
      [] node.name \in {"em", "i"} ->
            <<"\\", "t", "e", "x", "t", "i", "t", "{">> \o convert_inline(node.children) \o <<"}">>
      [] node.name = "u" ->
            <<"\\", "u", "n", "d", "e", "r", "l", "i", "n", "e", "{">>
                \o convert_inline(node.children) \o <<"}">>
      [] node.name = "sup" ->
            <<"$", "^", "{">> \o convert_inline(node.children) \o <<"}", "$">>
      [] node.name = "sub" ->
            <<"$", "_", "{">> \o convert_inline(node.children) \o <<"}", "$">>
      [] node.name = "code" ->
            <<"\\", "t", "e", "x", "t", "t", "t", "{">> \o convert_inline(node.children) \o <<"}">>
      [] node.name \in {"ul", "ol"} -> convert_list(node, node.name = "ol")
      [] node.name = "pre" ->
            <<"\\", "b", "e", "g", "i", "n", "{", "v", "e", "r", "b", "a", "t", "i", "m", "}", "\n">>
                \o concat(node_strings(node))
                \o <<"\n", "\\", "e", "n", "d", "{", "v", "e", "r", "b", "a", "t", "i", "m", "}", "\n">>
      [] node.name = "img" ->
            LET src == IF has_attr(node, "src") THEN get_str(node, "src") ELSE <<>>
                alt == IF has_attr(node, "alt") THEN get_str(node, "alt") ELSE <<>>
                include ==
                    <<"\\", "i", "n", "c", "l", "u", "d", "e", "g", "r", "a", "p", "h", "i",
                      "c", "s", "[", "w", "i", "d", "t", "h", "=", "\\", "l", "i", "n", "e",
                      "w", "i", "d", "t", "h", "]", "{">> \o escape_tex(src) \o <<"}">>
            IN  IF alt # <<>>
                THEN include \o <<"\\", "\n", "e", "w", "l", "i", "n", "e", "\\", "t", "e",
                                  "x", "t", "i", "t", "{">> \o escape_tex(alt) \o <<"}">>
                ELSE include
      [] node.name = "p" -> close_paragraph(convert_inline(node.children))
      [] OTHER -> convert_inline(node.children)

(***************************************************************************)
(* escape_tex called on a text.                                            *)
(***************************************************************************)
EscapeChars == ReservedChars \cup {"a", " ", "\n"}

InitEscape ==
    /\ pc = "ready"
    /\ text \in SeqsUpTo(EscapeChars, MaxTextLen)
    /\ escaped = None
    /\ ColIdle /\ RenIdle /\ SmpIdle /\ ParIdle /\ UplIdle

EscapeTex ==
    /\ pc = "ready"
    /\ escaped' = escape_tex(text)
    /\ pc' = "done"
    /\ UNCHANGED <<parVars, uplVars, text, colVars, renVars, smpVars>>

NextEscape == EscapeTex

SpecEscape == InitEscape /\ [][NextEscape]_vars

\* C6: escape_tex replaces each of the ten reserved characters, in place and in
\* order, by its mapped sequence and passes every other character through: a
\* reserved character alone gives its mapped sequence, and a text without
\* reserved characters is returned unchanged.
C6_EscapePerCharacter ==
    pc = "done" =>
        /\ escaped # None
        /\ escaped = concat([i \in 1..Len(text) |->
                                IF text[i] \in ReservedChars
                                THEN LATEX_SPECIALS[text[i]] ELSE <<text[i]>>])
        /\ (Len(text) = 1 /\ text[1] \in ReservedChars => escaped = LATEX_SPECIALS[text[1]])
        /\ ((\A i \in 1..Len(text) : text[i] \notin ReservedChars) => escaped = text)
        /\ Cardinality(ReservedChars) = 10
        /\ \A c \in ReservedChars : LATEX_SPECIALS[c] # <<c>>

\* C6 witness: a text with a caret between two other characters was escaped.
C6_Witness ==
    /\ pc = "done"
    /\ text = <<"a", "^", "$">>
    /\ escaped = <<"a", "\\", "t", "e", "x", "t", "a", "s", "c", "i", "i", "c", "i", "r",
                   "c", "u", "m", "{", "}", "\\", "$">>

(***************************************************************************)
(* add_image called again and again on one collector.                      *)
(***************************************************************************)
SrcLocalA == <<"a", ".", "p", "n", "g">>
SrcLocalDirA == <<"d", "/", "a", ".", "p", "n", "g">>
SrcRemoteA == <<"h", "t", "t", "p", ":", "/", "/", "h", "/", "a", ".", "p", "n", "g">>
SrcRemoteNoPath == <<"H", "T", "T", "P", "S", ":", "/", "/", "h", "/">>
SrcLocalImage2 == <<"i", "m", "a", "g", "e", "_", "2", ".", "p", "n", "g">>

CollectorSrcs ==
    {None, SrcLocalA, SrcLocalDirA, SrcRemoteA, SrcRemoteNoPath, SrcLocalImage2}

\* The answers the calls of this specification get: no file or no response,
\* bytes PIL decodes, bytes it does not
CollectorOutcomes == {Missing, <<"P", "N", "G", "1">>, <<"j", "u", "n", "k">>}

InitCollector ==
    /\ pc = "ready"
    /\ collector = <<>>
    /\ ret = None
    /\ requests = <<>>
    /\ EscIdle /\ RenIdle /\ SmpIdle /\ ParIdle /\ UplIdle

AddImage(src, inline, outcome) ==
    /\ pc = "ready"
    /\ Len(requests) < MaxCalls
    /\ LET r == add_image(collector, src, inline, outcome)
       IN  /\ collector' = r.res
           /\ ret' = r.ret
    \* the history: the name the call asked for, and what was answered (a call
    \* without a src asks nothing, and is answered nothing)
    /\ requests' = Append(requests,
                          IF src = None \/ src = <<>>
                          THEN [src |-> src, name |-> None, outcome |-> Missing]
                          ELSE [src |-> src,
                                name |-> resource_name(src, Len(collector)),
                                outcome |-> outcome])
    /\ UNCHANGED <<parVars, uplVars, pc, escVars, renVars, smpVars>>

NextCollector ==
    \E src \in CollectorSrcs, inline \in BOOLEAN, outcome \in CollectorOutcomes :
        AddImage(src, inline, outcome)

SpecCollector == InitCollector /\ [][NextCollector]_vars

\* The calls of the history that resolved their source, in call order
RECURSIVE Successful(_)
Successful(reqs) ==
    IF reqs = <<>> THEN <<>>
    ELSE IF Head(reqs).outcome # Missing THEN <<Head(reqs)>> \o Successful(Tail(reqs))
    ELSE Successful(Tail(reqs))

\* The names a history of calls asked for
RequestedNames(reqs) == {reqs[i].name : i \in 1..Len(reqs)} \ {None}

\* C1: each registered name holds the bytes of the first successful call that
\* resolved to that name, resources() yields one entry per registered name in
\* the order of first registration, and no more entries than names asked for.
C1_FirstWriterWins ==
    LET ok == Successful(requests)
        listed == resources(collector)
    IN  /\ \A i \in 1..Len(listed) :
              \E k \in 1..Len(ok) :
                  /\ ok[k].name = listed[i].name
                  /\ ok[k].outcome = listed[i].content
                  /\ \A j \in 1..(k - 1) : ok[j].name # listed[i].name
        /\ \A k \in 1..Len(ok) : \E i \in 1..Len(listed) : listed[i].name = ok[k].name
        /\ \A i, j \in 1..Len(listed) : i # j => listed[i].name # listed[j].name
        /\ \A i, j \in 1..Len(listed) :
              i < j =>
                  \E k \in 1..Len(ok) :
                      /\ ok[k].name = listed[i].name
                      /\ \A m \in 1..k : ok[m].name # listed[j].name
        /\ Len(listed) <= Cardinality(RequestedNames(requests))

\* C1 witness: two successful calls resolved to one name with different bytes,
\* after a call that registered another name.
C1_Witness ==
    LET ok == Successful(requests)
    IN  /\ Len(collector) = 2
        /\ \E j, k \in 1..Len(ok) :
              /\ j < k
              /\ ok[j].name = ok[k].name
              /\ ok[j].outcome # ok[k].outcome
              /\ ok[j].src # ok[k].src

\* The calls of a history for a remote image whose URL has no file name, which
\* add_image names image_<n>.png after the number of resources it holds
Synthesized(reqs) ==
    {i \in 1..Len(reqs) :
        /\ reqs[i].src # None
        /\ is_remote(reqs[i].src)
        /\ path_name(urlparse(reqs[i].src).path) = <<>>}

\* C14: the bytes fetched for a remote image whose URL has no file name are
\* stored under the synthesized name image_<n>.png, so that the resource the
\* returned directive names holds the bytes of that download.
C14_SynthesizedNameIsFresh ==
    \A i \in Synthesized(requests) :
        requests[i].outcome # Missing =>
            \E k \in 1..Len(collector) :
                collector[k] = [name |-> requests[i].name, content |-> requests[i].outcome]

(***************************************************************************)
(* has_tex_marker called on an element.                                    *)
(***************************************************************************)
MarkerTokens ==
    {<<"t", "e", "x", "-", "s", "p", "a", "n">>, <<"T", "e", "X", "-", "f", "o", "n", "t">>,
     <<"n", "o", "t", "e">>}

\* The attributes an element has besides class: none, or an id or an href
MarkerOtherAttrs ==
    {<<>>,
     <<StrAttr("id", <<"m", "a", "i", "n">>)>>,
     <<StrAttr("id", <<"l", "a", "t", "e", "x">>)>>,
     <<StrAttr("href", <<"c", "o", "n", "t", "e", "x", "t", ".", "h", "t", "m", "l">>)>>,
     <<ListAttr("rel", <<<<"n", "o", "t", "e">>>>)>>}

MarkerNodes ==
    {Element("span", other, <<>>) : other \in MarkerOtherAttrs}
    \cup {Element("span", <<ListAttr("class", tokens)>> \o other, <<>>) :
            tokens \in SeqsUpTo(MarkerTokens, MaxClasses), other \in MarkerOtherAttrs}

InitMarker ==
    /\ pc = "ready"
    /\ root \in MarkerNodes
    /\ marker = FALSE /\ tex_mode = FALSE /\ skip_set = {}
    /\ io = <<>> /\ calls = <<>> /\ rendered = <<>> /\ field_html = <<>>
    /\ with_breaks = <<>> /\ converted = <<>>
    /\ EscIdle /\ ColIdle /\ SmpIdle /\ ParIdle /\ UplIdle

HasTexMarker ==
    /\ pc = "ready"
    /\ marker' = has_tex_marker(root)
    /\ pc' = "done"
    /\ UNCHANGED <<parVars, uplVars, escVars, colVars, root, tex_mode, skip_set, io, calls, rendered,
                   field_html, with_breaks, converted, smpVars>>

NextMarker == HasTexMarker

SpecMarker == InitMarker /\ [][NextMarker]_vars

\* Some class token of the element contains "tex", whatever the case
ClassHasTex(element) ==
    \E i \in 1..Len(element.attrs) :
        /\ element.attrs[i].name = "class"
        /\ \E k \in 1..Len(element.attrs[i].items) :
              contains(lower(element.attrs[i].items[k]), Tex)

\* Some attribute value of the element, of the class list or of any other
\* attribute, contains "tex", whatever the case
AnyAttrHasTex(element) ==
    \E i \in 1..Len(element.attrs) :
        \E k \in 1..Len(element.attrs[i].items) :
            contains(lower(element.attrs[i].items[k]), Tex)

\* C8 as claimed: has_tex_marker is true exactly when a class token contains
\* "tex" (case-insensitively), whatever the other attributes hold.
C8_ClassTokensOnly == pc = "done" => (marker <=> ClassHasTex(root))

\* C8 as amended: has_tex_marker is true exactly when some attribute value of
\* the node contains "tex" case-insensitively: an item of a list-valued
\* attribute such as class, or the string of any other attribute.
C8_AnyAttributeValue == pc = "done" => (marker <=> AnyAttrHasTex(root))

\* C8 witness: an element that has class tokens, none of them with "tex", is
\* classified as formula by another attribute.
C8_Witness ==
    /\ pc = "done"
    /\ marker
    /\ has_attr(root, "class")
    /\ ~ClassHasTex(root)

(***************************************************************************)
(* The renderers called on a node: render and clean_html_content of        *)
(* upload_to_polygon with a fresh collector, convert_node of               *)
(* convert_html_to_tex.                                                    *)
(***************************************************************************)
SectionTitle == <<"s", "e", "c", "t", "i", "o", "n", "-", "t", "i", "t", "l", "e">>
TexSpan == <<"t", "e", "x", "-", "s", "p", "a", "n">>
SectionTitleCaps == <<"S", "e", "c", "t", "i", "o", "n", "-", "T", "I", "T", "L", "E">>

ImgNode(classes, src_attrs) == Element("img", <<ListAttr("class", classes)>> \o src_attrs, <<>>)

\* The children an element of the model is built from
Kids ==
    {TextNode(<<"x", "+", "1">>),
     TextNode(<<" ", "a", "_", "b", "\n">>),
     Element("br", <<>>, <<>>),
     ImgNode(<<TexGraphics>>, <<StrAttr("src", SrcLocalA)>>),
     ImgNode(<<TexFormula, TexGraphics>>, <<StrAttr("src", SrcRemoteNoPath)>>),
     Element("span", <<ListAttr("class", <<TexSpan>>)>>, <<TextNode(<<"x", "+", "1">>)>>),
     Element("p", <<>>, <<TextNode(<<" ", "a", " ">>), Element("br", <<>>, <<>>)>>)}

\* The name and the attributes of the elements built from them
Tops ==
    {[name |-> "p", attrs |-> <<>>],
     [name |-> "div", attrs |-> <<ListAttr("class", <<TexSpan>>)>>],
     [name |-> "li", attrs |-> <<>>],
     [name |-> "span", attrs |-> <<ListAttr("class", <<TexSpan>>)>>],
     [name |-> "sup", attrs |-> <<ListAttr("class", <<TexSpan>>)>>],
     [name |-> "sub", attrs |-> <<>>]}

\* Nodes of their own: the images by marker and source, text leaves, scripts,
\* MathJax output, lists
ImageNodes ==
    {ImgNode(classes, src_attrs) :
        classes \in {<<>>, <<TexGraphics>>, <<TexFormula>>, <<TexGraphics, TexFormula>>,
                     <<<<"p", "i", "c", "t", "u", "r", "e">>>>},
        src_attrs \in {<<>>, <<StrAttr("src", <<>>)>>, <<StrAttr("src", SrcLocalDirA)>>,
                       <<StrAttr("src", SrcRemoteA)>>}}

OtherNodes ==
    {TextNode(<<"U+2264", " ", "{", "~", "}">>),
     TextNode(<<" ", "\r", "\n">>),
     Element("script", <<StrAttr("type", <<"m", "a", "t", "h", "/", "t", "e", "x">>)>>,
             <<TextNode(<<" ", "y", "^", "2">>)>>),
     Element("span", <<ListAttr("class", <<<<"M", "a", "t", "h", "J", "a", "x">>>>)>>,
             <<TextNode(<<"y">>)>>),
     Element("div", <<>>,
             <<TextNode(<<"n", "U+2264", "5", " ", "\r", "\n">>),
               Element("p", <<>>, <<>>),
               TextNode(<<"\n">>)>>),
     Element("ul", <<>>,
             <<Element("li", <<>>, <<TextNode(<<"A">>)>>),
               Element("li", <<>>, <<TextNode(<<"B", "\n">>)>>)>>),
     Element("ol", <<ListAttr("class", <<SectionTitle>>)>>, <<>>),
     Element("div", <<>>,
             <<Element("div", <<ListAttr("class", <<SectionTitle>>)>>, <<TextNode(<<"T">>)>>),
               Element("span", <<>>, <<TextNode(<<"x", "+", "1">>)>>)>>),
     Element("div", <<ListAttr("class", <<SectionTitle>>)>>, <<TextNode(<<"T">>)>>),
     Element("p", <<>>,
             <<TextNode(<<"x", "+", "1">>),
               ImgNode(<<TexGraphics>>, <<>>),
               Element("br", <<>>, <<>>)>>),
     Element("span", <<ListAttr("class", <<TexSpan>>)>>, <<TextNode(<<" ", "$", "x", "$">>)>>),
     Element("div", <<ListAttr("class", <<SectionTitleCaps>>)>>,
             <<ImgNode(<<TexGraphics>>, <<StrAttr("src", SrcLocalA)>>)>>),
     ImgNode(<<TexGraphics, SectionTitle>>, <<StrAttr("src", SrcLocalA)>>),
     Element("p", <<>>,
             <<TextNode(<<"x", "+", "1">>),
               Element("span", <<ListAttr("class", <<TexSpan, SectionTitle>>)>>,
                       <<ImgNode(<<TexFormula>>, <<StrAttr("src", SrcRemoteA)>>),
                         TextNode(<<"y">>)>>)>>),
     Element("div", <<ListAttr("class", <<TexSpan>>)>>,
             <<TextNode(<<"$", "x">>), TextNode(<<"$", "\n">>)>>),
     Element("p", <<>>,
             <<TextNode(<<"H", "e", "l", "l", "o", " ">>),
               Element("b", <<>>, <<TextNode(<<"w", "o", "r", "l", "d">>)>>)>>)}

RenderNodes ==
    Kids \cup ImageNodes \cup OtherNodes
    \cup {Element(top.name, top.attrs, kids) :
            top \in Tops, kids \in SeqsUpTo(Kids, MaxChildren)}

SkipSets == {{}, {SectionTitle}, {SectionTitleCaps}}

\* What the add_image calls of one walk are answered, call after call (and
\* again from the first answer after the last)
Answers ==
    {<<Missing>>,
     <<<<"P", "N", "G", "1">>>>,
     <<Missing, <<"P", "N", "G", "2">>>>}

FreshCollector == [res |-> <<>>, calls |-> <<>>]

InitRender ==
    /\ pc = "ready"
    /\ root \in RenderNodes \cup {NoTag}
    /\ marker = FALSE /\ tex_mode = FALSE /\ skip_set = {}
    /\ io = <<>> /\ calls = <<>> /\ rendered = None /\ field_html = None
    /\ with_breaks = None /\ converted = None
    /\ EscIdle /\ ColIdle /\ SmpIdle /\ ParIdle /\ UplIdle

\* render(root, in_tex) inside a clean_html_content(_, skip, collector) call
Render(in_tex, skip, answers) ==
    /\ pc = "ready"
    /\ root # NoTag
    /\ \E r \in {render(root, in_tex,
                          [skip |-> {lower(cls) : cls \in skip}, rc |-> TRUE, io |-> answers],
                          FreshCollector)} :
           /\ rendered' = r.out
           /\ collector' = r.st.res
           /\ calls' = r.st.calls
    /\ tex_mode' = in_tex
    /\ skip_set' = skip
    /\ io' = answers
    /\ pc' = "rendered"
    /\ UNCHANGED <<parVars, uplVars, escVars, ret, requests, root, marker, field_html, with_breaks, converted, smpVars>>

\* clean_html_content(root, skip_classes=skip, resource_collector=collector)
CleanHtmlContent(skip, answers) ==
    /\ pc = "ready"
    /\ root.kind \in {"none", "tag"}
    /\ \E r \in {clean_html_content(root, skip, TRUE, answers, FreshCollector)} :
           /\ field_html' = r.ret
           /\ collector' = r.st.res
           /\ calls' = r.st.calls
    /\ skip_set' = skip
    /\ io' = answers
    /\ pc' = "cleaned"
    /\ UNCHANGED <<parVars, uplVars, escVars, ret, requests, root, marker, tex_mode, rendered, with_breaks,
                   converted, smpVars>>

\* add_paragraph_breaks(clean_html_content(...))
AddParagraphBreaks ==
    /\ pc = "cleaned"
    /\ with_breaks' = add_paragraph_breaks(field_html)
    /\ pc' = "done"
    /\ UNCHANGED <<parVars, uplVars, escVars, colVars, root, marker, tex_mode, skip_set, io, calls, rendered,
                   field_html, converted, smpVars>>

\* convert_node(root)
ConvertNode ==
    /\ pc = "ready"
    /\ root # NoTag
    /\ converted' = convert_node(root)
    /\ pc' = "converted"
    /\ UNCHANGED <<parVars, uplVars, escVars, colVars, root, marker, tex_mode, skip_set, io, calls, rendered,
                   field_html, with_breaks, smpVars>>

NextRender ==
    \/ \E in_tex \in BOOLEAN, skip \in SkipSets, answers \in Answers :
            Render(in_tex, skip, answers)
    \/ \E skip \in SkipSets, answers \in Answers : CleanHtmlContent(skip, answers)
    \/ AddParagraphBreaks
    \/ ConvertNode

SpecRender == InitRender /\ [][NextRender]_vars

\* The context of the walk a state records
WalkCtx == [skip |-> {lower(cls) : cls \in skip_set}, rc |-> TRUE, io |-> io]

IsElement(n) == n.kind = "tag"
IsImage(n) == IsElement(n) /\ n.name = "img"
IsBlock(n) == IsElement(n) /\ n.name \in block_tags

\* An element none of the earlier cases of render returns from
IsGeneric(n) ==
    /\ IsElement(n)
    /\ ~suppressed(class_list(n), WalkCtx)
    /\ n.name \notin {"script", "br", "img"}

\* The rendered children of the root, as a marker-classified root renders them
MarkedChildrenText ==
    strip(render_children(root.children, TRUE, WalkCtx, FreshCollector).out)

\* An add_image call that did not resolve its source
FailedCall(c) == c.src = None \/ c.src = <<>> \/ c.outcome = Missing

\* An image none of whose add_image calls can resolve its source, when every
\* call is answered the same
Unresolvable(n, answers) ==
    /\ IsImage(n)
    /\ \/ get_str(n, "src") \in {None, <<>>}
       \/ answers = <<Missing>>

\* The tree without its unresolvable images
RECURSIVE Pruned(_, _)
RECURSIVE PrunedSeq(_, _)
PrunedSeq(children, answers) ==
    IF children = <<>> THEN <<>>
    ELSE IF Unresolvable(Head(children), answers) THEN PrunedSeq(Tail(children), answers)
    ELSE <<Pruned(Head(children), answers)>> \o PrunedSeq(Tail(children), answers)

Pruned(n, answers) ==
    IF IsElement(n) THEN [n EXCEPT !.children = PrunedSeq(n.children, answers)] ELSE n

\* C2: an add_image call that cannot resolve its source (no src, an empty src,
\* a local file that does not exist, a remote fetch that fails) returns absent
\* and leaves the collector's resources as they were; an image node whose
\* calls all failed renders as empty output; and the rendering of the other
\* nodes is what it is without the unresolvable images.
C2_UnresolvedImageIsSkipped ==
    /\ \A i \in 1..Len(calls) :
          FailedCall(calls[i]) =>
              calls[i].ret = None /\ calls[i].after = calls[i].before
    /\ (pc = "rendered" /\ IsImage(root) /\ \A i \in 1..Len(calls) : FailedCall(calls[i]))
          => (rendered = <<>> /\ collector = <<>>)
    /\ (pc = "rendered" /\ Len(io) = 1 /\ ~Unresolvable(root, io))
          => \A r \in {render(Pruned(root, io), tex_mode, WalkCtx, FreshCollector)} :
                rendered = r.out /\ collector = r.st.res
    /\ (pc = "cleaned" /\ Len(io) = 1 /\ IsElement(root))
          => field_html = clean_html_content(Pruned(root, io), skip_set, TRUE, io,
                                             FreshCollector).ret

\* C2 witness: an image of a local file that does not exist was rendered
\* between other nodes: its call returned absent, the collector is empty and
\* the other nodes are in the output.
C2_Witness ==
    /\ pc = "rendered"
    /\ root = Element("p", <<>>, <<TextNode(<<"x", "+", "1">>),
                                   ImgNode(<<TexGraphics>>, <<StrAttr("src", SrcLocalA)>>)>>)
    /\ Len(calls) = 1 /\ calls[1].src = SrcLocalA /\ calls[1].outcome = Missing
    /\ calls[1].ret = None
    /\ collector = <<>>
    /\ rendered = <<"x", "+", "1", "\n">>

Delimited(t) == startswith(t, <<"$">>) /\ endswith(t, <<"$">>)

\* The trimmed content t with delimiters added where C3 says they are added
Wrapped(t, in_tex) ==
    IF ~in_tex /\ t # <<>> /\ ~Delimited(t) THEN <<"$">> \o t \o <<"$">> ELSE t

\* C3 as claimed: a marker-classified element (none of the cases render returns
\* from before it looks at the marker) adds a pair of $ around its trimmed
\* rendered children if and only if it is rendered with in_tex false, the
\* trimmed content is not empty and does not already begin and end with $; in
\* every other case it returns the trimmed content (a block element ending
\* either with its line separator).
C3_EveryMarkedElementWraps ==
    (pc = "rendered" /\ IsGeneric(root) /\ has_tex_marker(root))
        => rendered = Wrapped(MarkedChildrenText, tex_mode)
                          \o (IF root.name \in block_tags THEN <<"\n">> ELSE <<>>)

\* C3 as amended: a marker-classified element other than sup and sub (and
\* none of the cases render returns from before it looks at the marker) adds
\* the pair of $ under exactly those conditions and otherwise returns the
\* trimmed content (a block element ending either with its line separator); a
\* marker-classified sup or sub returns ^{...} or _{...} around the trimmed
\* content, without $, whatever in_tex is.
C3_GenericMarkedElementWraps ==
    (pc = "rendered" /\ IsGeneric(root) /\ has_tex_marker(root))
        => rendered =
              IF root.name \in {"sup", "sub"}
              THEN <<IF root.name = "sup" THEN "^" ELSE "_", "{">>
                       \o MarkedChildrenText \o <<"}">>
              ELSE Wrapped(MarkedChildrenText, tex_mode)
                       \o (IF root.name \in block_tags THEN <<"\n">> ELSE <<>>)

\* C3 witness: a formula-marked span with the text x+1 was rendered outside a
\* formula to $x+1$.
C3_Witness ==
    /\ pc = "rendered"
    /\ root = Element("span", <<ListAttr("class", <<TexSpan>>)>>, <<TextNode(<<"x", "+", "1">>)>>)
    /\ ~tex_mode
    /\ rendered = <<"$", "x", "+", "1", "$">>

\* t ends with one line separator, and no second one before it
EndsWithOneSeparator(t) ==
    /\ Len(t) >= 1 /\ t[Len(t)] = "\n"
    /\ Len(t) >= 2 => t[Len(t) - 1] # "\n"

\* t is a trimmed text followed by n line separators
TrimmedThenSeparators(t, n) ==
    /\ Len(t) >= n
    /\ \A i \in 1..n : t[Len(t) - n + i] = "\n"
    /\ strip(SubSeq(t, 1, Len(t) - n)) = SubSeq(t, 1, Len(t) - n)

\* C4 as claimed: every block-level element (p, div, li, ul, ol) a renderer
\* renders (and no class suppresses) ends with exactly one line separator,
\* whatever its children end with.
C4_EveryBlockEndsOnce ==
    /\ (pc = "rendered" /\ IsBlock(root) /\ ~suppressed(class_list(root), WalkCtx))
          => EndsWithOneSeparator(rendered)
    /\ (pc = "converted" /\ IsBlock(root)) => EndsWithOneSeparator(converted)

\* C4 as amended: in clean_html_content's render a block-level element that no
\* skipped or MathJax class suppresses is its trimmed content followed by
\* exactly one line separator; in convert_node a p is its trimmed content
\* followed by two line separators, a ul or ol ends with exactly one, and a
\* div or li adds none to its children.
C4_BlockSeparators ==
    /\ (pc = "rendered" /\ IsBlock(root) /\ ~suppressed(class_list(root), WalkCtx))
          => /\ EndsWithOneSeparator(rendered)
             /\ TrimmedThenSeparators(rendered, 1)
    /\ (pc = "converted" /\ IsElement(root) /\ root.name = "p")
          => TrimmedThenSeparators(converted, 2)
    /\ (pc = "converted" /\ IsElement(root) /\ root.name \in {"ul", "ol"})
          => EndsWithOneSeparator(converted)
    /\ (pc = "converted" /\ IsElement(root) /\ root.name \in {"div", "li"})
          => converted = convert_inline(root.children)

\* C4 witness: a paragraph whose children end in a line separator was rendered,
\* and ends with one.
C4_Witness ==
    /\ pc = "rendered"
    /\ root = Element("p", <<>>, <<TextNode(<<"x", "+", "1">>), Element("br", <<>>, <<>>)>>)
    /\ rendered = <<"x", "+", "1", "\n">>

\* C5: clean_html_content returns absent for an absent root and for a root
\* whose rendered children are empty after trimming, and otherwise a string
\* that is not empty and has no whitespace at its start or at its end;
\* add_paragraph_breaks keeps an absent field absent (and no other).
C5_AbsentOrTrimmedText ==
    /\ pc \in {"cleaned", "done"} =>
          /\ field_html # <<>>
          /\ field_html # None => strip(field_html) = field_html
          /\ field_html = None <=>
                \/ root = NoTag
                \/ strip(render_children(root.children, FALSE, WalkCtx,
                                         FreshCollector).out) = <<>>
    /\ pc = "done" => (with_breaks = None <=> field_html = None)

\* C5 witness: a root that has children, all rendered to whitespace, gave an
\* absent field, kept absent by add_paragraph_breaks.
C5_Witness ==
    /\ pc = "done"
    /\ IsElement(root) /\ root.children # <<>>
    /\ render_children(root.children, FALSE, WalkCtx, FreshCollector).out # <<>>
    /\ field_html = None
    /\ with_breaks = None

\* The text t with each reserved character replaced by its mapped sequence
Escaped(t) ==
    concat([i \in 1..Len(t) |->
                IF t[i] \in ReservedChars THEN LATEX_SPECIALS[t[i]] ELSE <<t[i]>>])

\* C7 as claimed: a text leaf is rendered to its escaped text by render inside
\* clean_html_content, for either value of in_tex, as by convert_node.
C7_LeafIsEscaped ==
    /\ (pc = "rendered" /\ root.kind = "text") => rendered = Escaped(root.text)
    /\ (pc = "converted" /\ root.kind = "text") => converted = Escaped(root.text)

\* C7 as amended: render inside clean_html_content returns the text of a leaf
\* unchanged, for either value of in_tex; convert_node returns its escaped text.
C7_LeafVerbatimOrEscaped ==
    /\ (pc = "rendered" /\ root.kind = "text") => rendered = root.text
    /\ (pc = "converted" /\ root.kind = "text") => converted = Escaped(root.text)

\* C7 witness: a leaf with a reserved character was rendered in formula mode
\* to its own text, which is not its escaped text.
C7_Witness ==
    /\ pc = "rendered"
    /\ root = TextNode(<<" ", "a", "_", "b", "\n">>)
    /\ tex_mode
    /\ rendered = root.text
    /\ rendered # Escaped(root.text)

HasClassWith(n, token) ==
    \E i \in 1..Len(class_list(n)) : contains(class_list(n)[i], token)

\* An image with a source, rendered where every add_image call resolves
ResolvedImage ==
    /\ pc = "rendered"
    /\ IsImage(root)
    /\ ~suppressed(class_list(root), WalkCtx)
    /\ get_str(root, "src") \notin {None, <<>>}
    /\ \A i \in 1..Len(io) : io[i] # Missing

\* The inclusion command of the root image, as the first resource of a collector
RootCommand == include_command(resource_name(get_str(root, "src"), 0), io[1])
RootResource == [name |-> resource_name(get_str(root, "src"), 0), content |-> io[1]]

\* C10 as claimed: an image with the formula-image marker is rendered as the
\* bare inline command, an image with any other image marker as the centered
\* block around the command, and registered.
C10_AnyOtherMarkerIsBlock ==
    ResolvedImage /\ class_list(root) # <<>> =>
        IF HasClassWith(root, TexFormula)
        THEN rendered = RootCommand
        ELSE rendered = BeginCenter \o RootCommand \o EndCenter
             /\ collector = <<RootResource>>

\* C10 as amended: an image with the tex-graphics marker is rendered as the
\* centered block around the command (also when it has the tex-formula marker
\* too), an image with the tex-formula marker and not the tex-graphics one as
\* the bare inline command, both registered by one add_image call; an image
\* with neither marker renders as empty output, with no add_image call.
C10_GraphicsBlockFormulaInline ==
    ResolvedImage =>
        IF HasClassWith(root, TexGraphics)
        THEN /\ rendered = BeginCenter \o RootCommand \o EndCenter
             /\ collector = <<RootResource>>
             /\ Len(calls) = 1 /\ ~calls[1].inline
        ELSE IF HasClassWith(root, TexFormula)
        THEN /\ rendered = RootCommand
             /\ collector = <<RootResource>>
             /\ Len(calls) = 1 /\ calls[1].inline
        ELSE rendered = <<>> /\ collector = <<>> /\ calls = <<>>

\* C10 witness: an image with the tex-formula marker alone was rendered inline
\* and registered.
C10_Witness ==
    /\ ResolvedImage
    /\ class_list(root) = <<TexFormula>>
    /\ rendered = RootCommand
    /\ collector = <<RootResource>>

\* Whether a class of the element is in the skip-set, whatever the case of
\* the letters
Skipped(n) ==
    /\ IsElement(n)
    /\ has_attr(n, "class")
    /\ \E i \in 1..Len(attr_value(n, "class").items), cls \in skip_set :
          lower(attr_value(n, "class").items[i]) = lower(cls)

\* The tree without the skipped elements below its root
RECURSIVE Unskipped(_)
Unskipped(n) ==
    IF IsElement(n)
    THEN [n EXCEPT !.children =
              LET kept == SelectSeq(n.children, LAMBDA c : ~Skipped(c))
              IN  [i \in 1..Len(kept) |-> Unskipped(kept[i])]]
    ELSE n

\* Whether an element below n, or n, is skipped
RECURSIVE HasSkipped(_)
HasSkipped(n) == Skipped(n) \/ \E i \in 1..Len(n.children) : HasSkipped(n.children[i])

\* C12: rendering an element one of whose class tokens matches the skip-set
\* (compared without regard to case) returns empty output whatever its kind
\* and the in_tex context, and does not go into its children: no add_image
\* call is made and the collector is as before, also when the images below
\* have sources that resolve; so the rendering of a tree, and the calls made
\* for it, are those of the tree without its skipped elements.
C12_SkippedElementIsEmpty ==
    /\ (pc = "rendered" /\ Skipped(root))
          => rendered = <<>> /\ calls = <<>> /\ collector = <<>>
    /\ (pc = "rendered" /\ ~Skipped(root) /\ HasSkipped(root))
          => \A r \in {render(Unskipped(root), tex_mode, WalkCtx, FreshCollector)} :
                rendered = r.out /\ calls = r.st.calls /\ collector = r.st.res

\* C12 witness: a div of class Section-TITLE that holds an image whose file
\* exists was rendered under the skip-set {section-title}: nothing came out
\* and no call was made.
C12_Witness ==
    /\ pc = "rendered"
    /\ root = Element("div", <<ListAttr("class", <<SectionTitleCaps>>)>>,
                      <<ImgNode(<<TexGraphics>>, <<StrAttr("src", SrcLocalA)>>)>>)
    /\ skip_set = {SectionTitle}
    /\ io = <<<<"P", "N", "G", "1">>>>
    /\ rendered = <<>> /\ calls = <<>> /\ collector = <<>>

(***************************************************************************)
(* The Sample-Pair Renderer: render_samples of convert_html_to_tex, and    *)
(* the samples loop of upload_to_polygon.parse_html_statements.            *)
(***************************************************************************)
\* cls is one of the class tokens of node (bs4 class_=cls, CSS .cls)
has_class(node, cls) ==
    /\ has_attr(node, "class")
    /\ \E i \in 1..Len(attr_value(node, "class").items) :
          attr_value(node, "class").items[i] = cls

\* The elements below node, in document order, each with whether an element of
\* class input, or of class output, is above it
RECURSIVE below(_, _, _)
below(node, in_input, in_output) ==
    concat([i \in 1..Len(node.children) |->
                IF node.children[i].kind # "tag" THEN <<>>
                ELSE <<[node |-> node.children[i], in_input |-> in_input,
                        in_output |-> in_output]>>
                     \o below(node.children[i],
                              in_input \/ has_class(node.children[i], <<"i", "n", "p", "u", "t">>),
                              in_output \/ has_class(node.children[i],
                                                     <<"o", "u", "t", "p", "u", "t">>))])

\* The nodes of the entries that pass Test, in order
Selected(entries, Test(_)) ==
    LET kept == SelectSeq(entries, Test)
    IN  [i \in 1..Len(kept) |-> kept[i].node]

\* tag.find_all(name, class_=cls); any class when cls is None
find_all(tag, name, cls) ==
    LET Test(e) == e.node.name = name /\ (cls = None \/ has_class(e.node, cls))
    IN  Selected(below(tag, FALSE, FALSE), Test)

\* The first of the elements found, or None (NoTag)
first_or_none(found) == IF found = <<>> THEN NoTag ELSE found[1]

\* tag.find(name, class_=cls)
find(tag, name, cls) == first_or_none(find_all(tag, name, cls))

SampleTests == <<"s", "a", "m", "p", "l", "e", "-", "t", "e", "s", "t", "s">>
SampleTest == <<"s", "a", "m", "p", "l", "e", "-", "t", "e", "s", "t">>
InputClass == <<"i", "n", "p", "u", "t">>
OutputClass == <<"o", "u", "t", "p", "u", "t">>

\* "".join(pre.strings) if pre else ""
pre_strings(pre) == IF pre = NoTag THEN <<>> ELSE concat(node_strings(pre))

\* The rows render_samples goes through (lines 97-101)
sample_rows(sample_wrapper) ==
    IF find_all(sample_wrapper, "div", SampleTest) # <<>>
    THEN find_all(sample_wrapper, "div", SampleTest)
    ELSE IF find(sample_wrapper, "table", None) # NoTag
    THEN find_all(find(sample_wrapper, "table", None), "tr", None)
    ELSE <<>>

\* Whether the loop of render_samples takes a pair from the row (lines 105-115)
row_has_pair(row) ==
    \/ /\ find_all(row, "div", InputClass) # <<>>
       /\ find_all(row, "div", OutputClass) # <<>>
    \/ Len(find_all(row, "pre", None)) >= 2

\* The pair it takes (lines 105-118)
row_pair(row) ==
    IF find_all(row, "div", InputClass) # <<>> /\ find_all(row, "div", OutputClass) # <<>>
    THEN <<rstrip(pre_strings(find(find_all(row, "div", InputClass)[1], "pre", None))),
           rstrip(pre_strings(find(find_all(row, "div", OutputClass)[1], "pre", None)))>>
    ELSE <<rstrip(pre_strings(find_all(row, "pre", None)[1])),
           rstrip(pre_strings(find_all(row, "pre", None)[2]))>>

\* A plausible bug: the pair put before the pairs taken so far.
add_pair_first(prs, pair) == <<pair>> \o prs

\* pairs.append(pair)
add_pair(prs, pair) == Append(prs, pair)

\* for row in rows: ... pairs.append(...) (lines 103-118)
RECURSIVE row_pairs(_, _)
row_pairs(rows, prs) ==
    IF rows = <<>> THEN prs
    ELSE row_pairs(Tail(rows),
                   IF row_has_pair(Head(rows)) THEN add_pair(prs, row_pair(Head(rows)))
                   ELSE prs)

\* The pairs of render_samples(problem) when it returns (lines 93-118)
sample_pairs(problem) ==
    IF find(problem, "div", SampleTests) = NoTag THEN <<>>
    ELSE row_pairs(sample_rows(find(problem, "div", SampleTests)), <<>>)

\* escaped.replace("\n", "\\\\")
row_breaks(t) ==
    concat([i \in 1..Len(t) |-> IF t[i] = "\n" THEN <<"\\", "\\">> ELSE <<t[i]>>])

MinipageBegin == <<"\\", "b", "e", "g", "i", "n", "{", "m", "i", "n", "i", "p", "a", "g",
    "e", "}", "[", "t", "]", "{", "\\", "l", "i", "n", "e", "w", "i", "d", "t", "h", "}", "\\",
    "r", "a", "g", "g", "e", "d", "r", "i", "g", "h", "t", "\\", "t", "t", "f", "a", "m", "i",
    "l", "y">>
MinipageEnd == <<"\\", "e", "n", "d", "{", "m", "i", "n", "i", "p", "a", "g", "e", "}">>

\* format_cell(text) (lines 125-132)
format_cell(t) ==
    MinipageBegin \o <<"\n">> \o row_breaks(escape_tex(t)) \o <<"\n">> \o MinipageEnd

TableHead ==
    <<<<"\\", "s", "u", "b", "s", "u", "b", "s", "e", "c", "t", "i", "o", "n", "*", "{",
        "U+041F", "U+0440", "U+0438", "U+043C", "U+0435", "U+0440", "U+044B", "}">>,
      <<"\\", "b", "e", "g", "i", "n", "{", "l", "o", "n", "g", "t", "a", "b", "l", "e",
          "}", "{", "|", "p", "{", "0", ".", "4", "8", "\\", "t", "e", "x", "t", "w", "i", "d",
          "t", "h", "}", "|", "p", "{", "0", ".", "4", "8", "\\", "t", "e", "x", "t", "w", "i",
          "d", "t", "h", "}", "|", "}">>,
      <<"\\", "h", "l", "i", "n", "e">>,
      <<"\\", "t", "e", "x", "t", "b", "f", "{", "U+0412", "U+0432", "U+043E", "U+0434",
          "}", " ", "&", " ", "\\", "t", "e", "x", "t", "b", "f", "{", "U+0412", "U+044B",
          "U+0432", "U+043E", "U+0434", "}", " ", "\\", "\\", " ", "\\", "h", "l", "i", "n",
          "e">>>>

\* The line of one pair (line 134)
pair_line(pair) ==
    format_cell(pair[1]) \o <<" ", "&", " ">> \o format_cell(pair[2])
        \o <<" ", "\\", "\\", " ", "\\", "h", "l", "i", "n", "e">>

\* The value render_samples returns for its pairs (lines 120-136)
render_pairs(prs) ==
    IF prs = <<>> THEN <<>>
    ELSE join(<<"\n">>,
              TableHead \o [i \in 1..Len(prs) |-> pair_line(prs[i])]
                  \o <<<<"\\", "e", "n", "d", "{", "l", "o", "n", "g", "t", "a", "b", "l",
                      "e", "}", "\n">>>>)

\* convert_html_to_tex.render_samples
render_samples(problem) == render_pairs(sample_pairs(problem))

\* statement.select(".sample-test"): the elements of the class, with what is
\* above each
select_sample_tests(stmt) ==
    SelectSeq(below(stmt, has_class(stmt, InputClass), has_class(stmt, OutputClass)),
              LAMBDA e : has_class(e.node, SampleTest))

\* sample.select_one(".input pre") and sample.select_one(".output pre"): the
\* first pre below sample that has an element of the class above it
select_one_pre(sample, of_input) ==
    LET Test(e) == e.node.name = "pre" /\ (IF of_input THEN e.in_input ELSE e.in_output)
        found == Selected(below(sample.node,
                                sample.in_input \/ has_class(sample.node, InputClass),
                                sample.in_output \/ has_class(sample.node, OutputClass)),
                          Test)
    IN  IF found = <<>> THEN NoTag ELSE found[1]

\* text.strip("\n")
RECURSIVE strip_newlines(_)
strip_newlines(t) ==
    IF t # <<>> /\ Head(t) = "\n" THEN strip_newlines(Tail(t))
    ELSE IF t # <<>> /\ t[Len(t)] = "\n" THEN strip_newlines(SubSeq(t, 1, Len(t) - 1))
    ELSE t

\* upload_to_polygon.extract_pre_text
extract_pre_text(tag) ==
    IF tag = NoTag THEN <<>>
    ELSE strip_newlines(SelectSeq(join(<<"\n">>, node_strings(tag)), LAMBDA ch : ch # "\r"))

\* The samples of a statement (lines 377-386)
parse_samples(stmt) ==
    [i \in 1..Len(select_sample_tests(stmt)) |->
        [input_text |-> extract_pre_text(select_one_pre(select_sample_tests(stmt)[i], TRUE)),
         output_text |-> extract_pre_text(select_one_pre(select_sample_tests(stmt)[i], FALSE))]]

(***************************************************************************)
(* render_samples and the samples loop called on a problem statement.      *)
(***************************************************************************)
MaxRows == 2

Classed(name, cls, children) == Element(name, <<ListAttr("class", <<cls>>)>>, children)
Pre(t) == Element("pre", <<>>, <<TextNode(t)>>)

\* The rows of a samples region in the labelled shape
LabelledRows ==
    {Classed("div", SampleTest,
             <<Classed("div", InputClass,
                       <<Classed("div", SectionTitle, <<TextNode(<<"I", "n">>)>>),
                         Pre(<<"1", " ", "2", "\n">>)>>),
               Classed("div", OutputClass, <<Pre(<<"3", "\n">>)>>)>>),
      Classed("div", SampleTest,
             <<Classed("div", InputClass, <<Pre(<<"5", "\n">>)>>),
               Classed("div", OutputClass, <<Pre(<<"5", "\n">>)>>)>>),
      \* two cells without labels
      Classed("div", SampleTest, <<Pre(<<"a", "_", "b">>), Pre(<<"\n", "c", "\r", "\n">>)>>),
      \* an input and no output
      Classed("div", SampleTest, <<Classed("div", InputClass, <<Pre(<<"x">>)>>)>>),
      \* an input without text, an output of two lines with a br between them
      Classed("div", SampleTest,
             <<Classed("div", InputClass, <<>>),
               Classed("div", OutputClass,
                       <<Element("pre", <<>>,
                                 <<TextNode(<<"7">>), Element("br", <<>>, <<>>),
                                   TextNode(<<"8">>)>>)>>)>>)}

\* The rows of a samples region in the table shape
TableRows ==
    {Element("tr", <<>>, <<Element("td", <<>>, <<Pre(<<"1", "\n", "2">>)>>),
                          Element("td", <<>>, <<Pre(<<"3">>)>>)>>),
     Element("tr", <<>>, <<Element("td", <<>>, <<Pre(<<"9">>)>>)>>)}

Statement(sections) == Classed("div", <<"p", "r", "o", "b", "l", "e", "m", "-", "s", "t", "a", "t", "e", "m", "e", "n", "t">>, sections)
Legend == Classed("div", <<"l", "e", "g", "e", "n", "d">>, <<Element("p", <<>>, <<TextNode(<<"T">>)>>)>>)
SamplesTitle == Classed("div", SectionTitle, <<TextNode(<<"E", "x">>)>>)

\* The statements: without a samples region, with a region of labelled rows,
\* with a region that is a table, with a region that has both
Statements ==
    {Statement(<<Legend>>)}
    \cup {Statement(<<Legend, Classed("div", SampleTests, <<SamplesTitle>> \o rows)>>) :
            rows \in SeqsUpTo(LabelledRows, MaxRows)}
    \cup {Statement(<<Classed("div", SampleTests,
                              <<SamplesTitle, Element("table", <<>>, rows)>>)>>) :
            rows \in SeqsUpTo(TableRows, MaxRows)}
    \cup {Statement(<<Classed("div", SampleTests,
                              <<Element("table", <<>>, <<trow>>), row>>)>>) :
            trow \in TableRows, row \in LabelledRows}

InitSamples ==
    /\ pc = "ready"
    /\ statement \in Statements
    /\ pairs = <<>> /\ samples_tex = None /\ samples = <<>>
    /\ EscIdle /\ ColIdle /\ RenIdle /\ ParIdle /\ UplIdle

\* render_samples(statement)
RenderSamples ==
    /\ pc = "ready"
    /\ pairs' = sample_pairs(statement)
    /\ samples_tex' = render_samples(statement)
    /\ pc' = "sampled"
    /\ UNCHANGED <<parVars, uplVars, escVars, colVars, renVars, statement, samples>>

\* The samples loop of parse_html_statements on the statement
ParseSamples ==
    /\ pc = "ready"
    /\ samples' = parse_samples(statement)
    /\ pc' = "parsed"
    /\ UNCHANGED <<parVars, uplVars, escVars, colVars, renVars, statement, pairs, samples_tex>>

NextSamples == RenderSamples \/ ParseSamples

SpecSamples == InitSamples /\ [][NextSamples]_vars

\* The children of node that are elements of that name and of that class (any,
\* when None), in source order
ChildElements(node, name, cls) ==
    SelectSeq(node.children,
              LAMBDA c : /\ c.kind = "tag"
                         /\ c.name = name
                         /\ cls = None \/ has_class(c, cls))

\* The rows of the samples region of the statement in source order: its
\* labelled rows, or without any the rows of its table
RegionRows ==
    IF ChildElements(statement, "div", SampleTests) = <<>> THEN <<>>
    ELSE LET region == ChildElements(statement, "div", SampleTests)[1]
         IN  IF ChildElements(region, "div", SampleTest) # <<>>
             THEN ChildElements(region, "div", SampleTest)
             ELSE IF ChildElements(region, "table", None) # <<>>
             THEN ChildElements(ChildElements(region, "table", None)[1], "tr", None)
             ELSE <<>>

\* The literal blocks of a row: its own and those of its cells
PreCells(row) ==
    concat([i \in 1..Len(row.children) |->
                IF row.children[i].kind # "tag" THEN <<>>
                ELSE IF row.children[i].name = "pre" THEN <<row.children[i]>>
                ELSE ChildElements(row.children[i], "pre", None)])

Labelled(row) ==
    /\ ChildElements(row, "div", InputClass) # <<>>
    /\ ChildElements(row, "div", OutputClass) # <<>>

\* A row render_samples recognizes: labelled, or of two cells at least
Recognized(row) == Labelled(row) \/ Len(PreCells(row)) >= 2

\* The texts of the leaves of the first literal block among blocks
LeafTexts(blocks) ==
    IF blocks = <<>> THEN <<>>
    ELSE LET leaves == SelectSeq(blocks[1].children, LAMBDA c : c.kind = "text")
         IN  [i \in 1..Len(leaves) |-> leaves[i].text]

\* The input and the output block of a row render_samples recognizes
InputBlocks(row) ==
    IF Labelled(row) THEN ChildElements(ChildElements(row, "div", InputClass)[1], "pre", None)
    ELSE PreCells(row)
OutputBlocks(row) ==
    IF Labelled(row) THEN ChildElements(ChildElements(row, "div", OutputClass)[1], "pre", None)
    ELSE Tail(PreCells(row))

\* The text of a table cell: reserved characters escaped, line breaks as \\
CellText(t) ==
    concat([i \in 1..Len(t) |->
                IF t[i] = "\n" THEN <<"\\", "\\">>
                ELSE IF t[i] \in ReservedChars THEN LATEX_SPECIALS[t[i]] ELSE <<t[i]>>])

\* The text the samples loop takes from a labelled block of a row, if any
ParsedText(row, cls) ==
    IF ChildElements(row, "div", cls) = <<>> THEN <<>>
    ELSE strip_newlines(SelectSeq(join(<<"\n">>,
                                       LeafTexts(ChildElements(ChildElements(row, "div", cls)[1],
                                                               "pre", None))),
                                  LAMBDA ch : ch # "\r"))

\* C9: render_samples takes one pair from each recognized row of the samples
\* region, in source order, and renders one table row per pair in that order;
\* without a region or without a recognized row it returns the empty text.
\* The samples loop of parse_html_statements takes one sample from each
\* sample-test row, in source order.
C9_SamplesInSourceOrder ==
    /\ pc = "sampled" =>
          LET rows == SelectSeq(RegionRows, Recognized)
              lines == split_on(samples_tex, "\n")
          IN  /\ Len(pairs) = Len(rows)
              /\ \A i \in 1..Len(rows) :
                    /\ pairs[i][1] = rstrip(concat(LeafTexts(InputBlocks(rows[i]))))
                    /\ pairs[i][2] = rstrip(concat(LeafTexts(OutputBlocks(rows[i]))))
              /\ (rows = <<>>) <=> (samples_tex = <<>>)
              /\ rows # <<>> =>
                    /\ Len(lines) = 4 + 5 * Len(rows) + 2
                    /\ \A i \in 1..Len(rows) :
                          /\ lines[4 + 5 * (i - 1) + 2] = CellText(pairs[i][1])
                          /\ lines[4 + 5 * (i - 1) + 4] = CellText(pairs[i][2])
    /\ pc = "parsed" =>
          LET rows == SelectSeq(RegionRows, LAMBDA r : has_class(r, SampleTest))
          IN  /\ Len(samples) = Len(rows)
              /\ \A i \in 1..Len(rows) :
                    /\ samples[i].input_text = ParsedText(rows[i], InputClass)
                    /\ samples[i].output_text = ParsedText(rows[i], OutputClass)

\* C9 witness: the rows ("1 2\n", "3\n") and ("5\n", "5\n") gave two pairs in
\* that order, and a table.
C9_Witness ==
    /\ pc = "sampled"
    /\ Len(RegionRows) = 2
    /\ pairs = <<<<<<"1", " ", "2">>, <<"3">>>>, <<<<"5">>, <<"5">>>>>>
    /\ samples_tex # <<>>

(***************************************************************************)
(* parse_html_statements of upload_to_polygon: the header fields.          *)
(* An Optional[int] is the set of its values: {} for None, {n} for n.      *)
(***************************************************************************)
\* tag.select_one("." + cls): the first element below tag of the class, or None
select_one(tag, cls) ==
    first_or_none(Selected(below(tag, FALSE, FALSE), LAMBDA e : has_class(e.node, cls)))

\* tag.get_text(sep, strip=True): the stripped texts of the leaves that are not
\* empty then, joined by sep
get_text(tag, sep) ==
    join(sep, SelectSeq([i \in 1..Len(node_strings(tag)) |-> strip(node_strings(tag)[i])],
                        LAMBDA t : t # <<>>))

\* text.split(): the pieces between runs of whitespace
RECURSIVE split_ws(_)
split_word(s, stop) == <<SubSeq(s, 1, stop - 1)>> \o split_ws(SubSeq(s, stop, Len(s)))

split_stripped(s) ==
    IF s = <<>> THEN <<>> ELSE split_word(s, find_first(s, {" ", "\n", "\r", "\t"}, 1))

split_ws(t) == split_stripped(lstrip(t))

\* token.replace(".", "", 1).isdigit(): digits with at most one "." among them
is_number(token) ==
    /\ \E i \in 1..Len(token) : token[i] # "."
    /\ \A i \in 1..Len(token) : token[i] = "." \/ \E d \in 1..10 : token[i] = Digits[d]
    /\ Cardinality({i \in 1..Len(token) : token[i] = "."}) <= 1

\* int(digits), 0 for no digit
RECURSIVE int_str(_)
int_str(digits) ==
    IF digits = <<>> THEN 0
    ELSE 10 * int_str(SubSeq(digits, 1, Len(digits) - 1))
            + ((CHOOSE d \in 1..10 : Digits[d] = digits[Len(digits)]) - 1)

\* int(float(token) * factor) of a token that is_number.  The product is taken
\* exactly; the float product of the code is the same number for the limits a
\* statement states (a few digits, at most one after the point).
scaled(token, factor) ==
    LET dot == find_first(token, {"."}, 1)
        frac == SubSeq(token, dot + 1, Len(token))
    IN  (int_str(SubSeq(token, 1, dot - 1) \o frac) * factor) \div (10 ^ Len(frac))

\* upload_to_polygon.parse_time_limit
\* The value parse_time_limit returns for the tokens that are numbers once
\* their "," is "." (lines 100-111)
time_limit_of(numbers, lowered) ==
    IF numbers = <<>> THEN {}
    ELSE IF contains(lowered, <<"m", "i", "l", "l", "i", "s", "e", "c", "o", "n", "d">>)
    THEN {scaled(numbers[1], 1)}
    ELSE IF contains(lowered, <<"s", "e", "c", "o", "n", "d">>)
    THEN {scaled(numbers[1], 1000)}
    ELSE {}

\* upload_to_polygon.parse_time_limit; a "," is no whitespace, so that the
\* tokens with "," replaced are the tokens of the text with "," replaced
parse_time_limit(t) ==
    time_limit_of(SelectSeq(split_ws([i \in 1..Len(t) |->
                                         IF t[i] = "," THEN "." ELSE lower_char(t[i])]),
                            is_number),
                  lower(t))

\* The loop of parse_memory_limit from the part of index idx on (lines 116-123)
RECURSIVE memory_limit_from(_, _)
memory_limit_from(parts, idx) ==
    IF idx > Len(parts) THEN {}
    ELSE IF is_number(parts[idx]) /\ idx + 1 <= Len(parts) /\ Head(parts[idx + 1]) = "m"
    THEN {scaled(parts[idx], 1)}
    ELSE IF is_number(parts[idx]) /\ idx + 1 <= Len(parts) /\ Head(parts[idx + 1]) = "g"
    THEN {scaled(parts[idx], 1024)}
    ELSE memory_limit_from(parts, idx + 1)

\* upload_to_polygon.parse_memory_limit
parse_memory_limit(t) == memory_limit_from(split_ws(lower(t)), 1)

HeaderClass == <<"h", "e", "a", "d", "e", "r">>
TitleClass == <<"t", "i", "t", "l", "e">>
TimeLimitClass == <<"t", "i", "m", "e", "-", "l", "i", "m", "i", "t">>
MemoryLimitClass == <<"m", "e", "m", "o", "r", "y", "-", "l", "i", "m", "i", "t">>
InputFileClass == <<"i", "n", "p", "u", "t", "-", "f", "i", "l", "e">>
OutputFileClass == <<"o", "u", "t", "p", "u", "t", "-", "f", "i", "l", "e">>
LegendClass == <<"l", "e", "g", "e", "n", "d">>
InputSpecification == <<"i", "n", "p", "u", "t", "-", "s", "p", "e", "c", "i", "f", "i", "c",
                        "a", "t", "i", "o", "n">>
OutputSpecification == <<"o", "u", "t", "p", "u", "t", "-", "s", "p", "e", "c", "i", "f", "i",
                         "c", "a", "t", "i", "o", "n">>
NoteClass == <<"n", "o", "t", "e">>

\* header.select_one(".title"), (".time-limit") or (".memory-limit") is None
\* and its get_text is called (lines 345-348)
header_raises(header) ==
    /\ header # NoTag
    /\ \/ select_one(header, TitleClass) = NoTag
       \/ select_one(header, TimeLimitClass) = NoTag
       \/ select_one(header, MemoryLimitClass) = NoTag

\* title_text (line 345)
title_text(header) ==
    IF header # NoTag THEN get_text(select_one(header, TitleClass), <<>>) ELSE <<>>

\* title_without_index (line 346)
title_without_index(t) ==
    IF \E i \in 1..Len(t) : t[i] = "."
    THEN strip(SubSeq(t, find_first(t, {"."}, 1) + 1, Len(t)))
    ELSE t

\* time_limit and memory_limit (lines 347-348)
header_limit(header, cls) ==
    IF header = NoTag THEN {}
    ELSE IF cls = TimeLimitClass
    THEN parse_time_limit(get_text(select_one(header, cls), <<" ">>))
    ELSE parse_memory_limit(get_text(select_one(header, cls), <<" ">>))

\* input_file and output_file (lines 349-350)
header_file(header, cls) ==
    IF header # NoTag /\ select_one(header, cls) # NoTag
    THEN get_text(select_one(header, cls), <<" ">>)
    ELSE None

\* Whether the loop that looks for a legend takes the child (lines 355-358)
legend_like(child) ==
    /\ child.kind = "tag" /\ child.name = "div"
    /\ \/ ~has_attr(child, "class")
       \/ \A i \in 1..Len(iter_value(attr_value(child, "class"))) :
             iter_value(attr_value(child, "class"))[i]
                 \notin {HeaderClass, InputSpecification, OutputSpecification,
                         SampleTests, NoteClass}

\* legend_tag (lines 352-360)
legend_tag(stmt) ==
    IF select_one(stmt, LegendClass) # NoTag THEN select_one(stmt, LegendClass)
    ELSE IF SelectSeq(stmt.children, legend_like) # <<>>
    THEN SelectSeq(stmt.children, legend_like)[1]
    ELSE NoTag

\* The section roots clean_html_content is called on, in the order of the calls,
\* and the skip_classes of each call (lines 362-375)
section_tags(stmt) ==
    <<legend_tag(stmt), select_one(stmt, InputSpecification),
      select_one(stmt, OutputSpecification), select_one(stmt, NoteClass)>>

section_skips == <<{}, {SectionTitle}, {SectionTitle}, {SectionTitle}>>

\* The field of one section put before the fields of the sections after it
push_field(field, later) == [fields |-> <<field>> \o later.fields, st |-> later.st]

\* add_paragraph_breaks(clean_html_content(tag, skip_classes, resources)) for
\* the sections one after the other, on the one collector (lines 362-375)
RECURSIVE convert_sections(_, _, _, _)
after_section(r, tags, skips, answers) ==
    push_field(add_paragraph_breaks(r.ret), convert_sections(tags, skips, answers, r.st))

convert_sections(tags, skips, answers, st) ==
    IF tags = <<>> THEN [fields |-> <<>>, st |-> st]
    ELSE after_section(clean_html_content(Head(tags), Head(skips), TRUE, answers, st),
                       Tail(tags), Tail(skips), answers)

\* A plausible bug: one collector for all the statements of the file.
ResourceCollector_shared(earlier) == [res |-> earlier, calls |-> <<>>]

\* resources = ResourceCollector(html_path.parent), whatever the statements
\* before have collected (line 343)
ResourceCollector(earlier) == [res |-> <<>>, calls |-> <<>>]

\* ProblemStatement(...) (lines 388-403)
ProblemStatement(stmt, header, sections) ==
    [original_title |-> title_text(header),
     title |-> title_without_index(title_text(header)),
     time_limit_ms |-> header_limit(header, TimeLimitClass),
     memory_limit_mb |-> header_limit(header, MemoryLimitClass),
     input_file |-> header_file(header, InputFileClass),
     output_file |-> header_file(header, OutputFileClass),
     legend_html |-> sections.fields[1],
     input_spec_html |-> sections.fields[2],
     output_spec_html |-> sections.fields[3],
     note_html |-> sections.fields[4],
     samples |-> parse_samples(stmt),
     resources |-> resources(sections.st.res)]

(***************************************************************************)
(* render_problem of convert_html_to_tex.                                  *)
(***************************************************************************)
\* normalize_whitespace
normalize_whitespace(t) == join(<<" ">>, split_ws(t))

\* convert_section
convert_section(tag) ==
    IF tag = NoTag THEN <<>> ELSE strip(convert_inline(tag.children))

\* title (lines 140-147), header being problem.find("div", class_="header")
problem_title(problem, header, number) ==
    IF /\ header # NoTag
       /\ find(header, "div", TitleClass) # NoTag
       /\ get_text(find(header, "div", TitleClass), <<>>) # <<>>
    THEN get_text(find(header, "div", TitleClass), <<>>)
    ELSE IF find(problem, "h1", None) # NoTag
    THEN get_text(find(problem, "h1", None), <<>>)
    ELSE <<"P", "r", "o", "b", "l", "e", "m", " ">> \o str_int(number)

\* time_limit, memory_limit, input_file and output_file (lines 154-157)
header_text(header, cls) ==
    IF header # NoTag /\ find(header, "div", cls) # NoTag
    THEN get_text(find(header, "div", cls), <<" ">>)
    ELSE None

LimitLabels ==
    <<[cls |-> TimeLimitClass, label |-> <<"U+0412", "U+0440", "U+0435", "U+043C", "U+044F",
                                           ":", " ">>],
      [cls |-> MemoryLimitClass, label |-> <<"U+041F", "U+0430", "U+043C", "U+044F", "U+0442",
                                             "U+044C", ":", " ">>],
      [cls |-> InputFileClass, label |-> <<"U+0412", "U+0432", "U+043E", "U+0434", ":", " ">>],
      [cls |-> OutputFileClass, label |-> <<"U+0412", "U+044B", "U+0432", "U+043E", "U+0434",
                                            ":", " ">>]>>

\* One of the limits (lines 162-169)
limit_text(label, value) ==
    IF value \in {None, <<>>} THEN <<>>
    ELSE <<label \o escape_tex(normalize_whitespace(value))>>

\* limits (lines 161-169)
limits(header) ==
    concat([i \in 1..4 |-> limit_text(LimitLabels[i].label,
                                      header_text(header, LimitLabels[i].cls))])

\* The pieces of the limits (lines 170-172)
limit_pieces(lims) ==
    IF lims = <<>> THEN <<>>
    ELSE <<<<"\\", "t", "e", "x", "t", "b", "f", "{">>
               \o join(<<" ", "\\", "q", "u", "a", "d", " ">>, lims)
               \o <<"}", "\\", "\\", " ", "\\", "s", "m", "a", "l", "l", "s", "k", "i", "p", "\n">>>>

SectionLabels ==
    <<[cls |-> InputSpecification, label |-> <<"\\", "s", "u", "b", "s", "u", "b", "s", "e",
                                               "c", "t", "i", "o", "n", "*", "{", "U+0412",
                                               "U+0432", "U+043E", "U+0434", "}">>],
      [cls |-> OutputSpecification, label |-> <<"\\", "s", "u", "b", "s", "u", "b", "s", "e",
                                                "c", "t", "i", "o", "n", "*", "{", "U+0412",
                                                "U+044B", "U+0432", "U+043E", "U+0434", "}">>],
      [cls |-> NoteClass, label |-> <<"\\", "s", "u", "b", "s", "u", "b", "s", "e", "c", "t",
                                      "i", "o", "n", "*", "{", "U+041F", "U+0440", "U+0438",
                                      "U+043C", "U+0435", "U+0447", "U+0430", "U+043D",
                                      "U+0438", "U+0435", "}">>]>>

\* The pieces of the legend (lines 174-176)
legend_pieces(legend_text) ==
    IF legend_text = <<>> THEN <<>> ELSE <<legend_text \o <<"\n">>>>

\* The pieces of a section that has a title (lines 178-186)
section_pieces(tag, label) ==
    IF tag = NoTag THEN <<>> ELSE <<label, convert_section(tag) \o <<"\n">>>>

\* The pieces of the samples (lines 188-190)
sample_pieces(sample_block) ==
    IF sample_block = <<>> THEN <<>> ELSE <<sample_block>>

\* pieces when render_problem returns
problem_pieces(problem, number) ==
    <<<<"\\", "s", "e", "c", "t", "i", "o", "n", "*", "{">>
          \o escape_tex(problem_title(problem, find(problem, "div", HeaderClass), number))
          \o <<"}">>>>
        \o limit_pieces(limits(find(problem, "div", HeaderClass)))
        \o legend_pieces(convert_section(find(problem, "div", LegendClass)))
        \o concat([i \in 1..3 |-> section_pieces(find(problem, "div", SectionLabels[i].cls),
                                                 SectionLabels[i].label)])
        \o sample_pieces(render_samples(problem))

\* convert_html_to_tex.render_problem
render_problem(problem, number) == join(<<"\n">>, problem_pieces(problem, number))

(***************************************************************************)
(* parse_html_statements and render_problem called on the statements of a  *)
(* file.                                                                   *)
(***************************************************************************)
MaxStatements == 2

\* The header of a statement, whole and with parts missing
PropertyTitle == <<"p", "r", "o", "p", "e", "r", "t", "y", "-", "t", "i", "t", "l", "e">>

HeaderParts ==
    <<Classed("div", TitleClass, <<TextNode(<<"A", ".", " ", "S", "u", "m", " ">>)>>),
      Classed("div", TimeLimitClass,
              <<Classed("div", PropertyTitle, <<TextNode(<<"t", "i", "m", "e">>)>>),
                TextNode(<<"1", ".", "5", " ", "s", "e", "c", "o", "n", "d", "s">>)>>),
      Classed("div", MemoryLimitClass,
              <<TextNode(<<"2", "5", "6", " ", "m", "e", "g", "a", "b", "y", "t", "e", "s">>)>>),
      Classed("div", InputFileClass, <<TextNode(<<" ", "s", "t", "d", "i", "n">>)>>)>>

Headers ==
    {Classed("div", HeaderClass, SelectSeq(HeaderParts, LAMBDA part : part \in kept)) :
        kept \in {{HeaderParts[i] : i \in 1..4}, {HeaderParts[i] : i \in 1..3},
                  {HeaderParts[1]}, {HeaderParts[2], HeaderParts[3]},
                  {HeaderParts[1], HeaderParts[3]}}}

\* The sections of a statement
Section(cls, children) ==
    Classed("div", cls, <<Classed("div", SectionTitle, <<TextNode(<<"T">>)>>)>> \o children)

SectionParts ==
    <<Legend,
      Section(InputSpecification, <<Element("p", <<>>, <<TextNode(<<"n">>)>>)>>),
      Section(OutputSpecification, <<Element("p", <<>>, <<TextNode(<<"s">>)>>)>>),
      Section(NoteClass, <<TextNode(<<"x">>)>>),
      Classed("div", SampleTests,
              <<SamplesTitle,
                Classed("div", SampleTest,
                        <<Classed("div", InputClass, <<Pre(<<"1", " ", "2", "\n">>)>>),
                          Classed("div", OutputClass, <<Pre(<<"3", "\n">>)>>)>>)>>)>>

\* The statements with any of the header and of the sections missing
StructStatements ==
    {Statement(head \o SelectSeq(SectionParts, LAMBDA part : part \in kept)) :
        head \in {<<>>} \cup {<<h>> : h \in Headers},
        kept \in SUBSET {SectionParts[i] : i \in 1..5}}

Graphics(src) == ImgNode(<<TexGraphics>>, <<StrAttr("src", src)>>)

\* The statements whose sections refer to images: one name in two sections, in
\* one section, under a remote source in a note that stands before the input
\* specification, and with a remote source without a path
ImageStatements ==
    {Statement(<<Classed("div", LegendClass, <<Graphics(SrcLocalA)>>),
                 Section(InputSpecification, <<Graphics(SrcLocalDirA)>>)>>),
     Statement(<<Classed("div", LegendClass, <<Graphics(SrcLocalA)>>)>>),
     Statement(<<Section(NoteClass, <<Graphics(SrcRemoteA)>>),
                 Section(InputSpecification, <<Graphics(SrcRemoteNoPath)>>)>>),
     Statement(<<Legend,
                 Section(OutputSpecification, <<Graphics(SrcLocalDirA)>>),
                 Section(NoteClass, <<Graphics(SrcLocalA), Graphics(SrcLocalImage2)>>)>>)}

\* The files: one statement of any structure, or up to MaxStatements statements
\* with images, whole or with a header that lacks its limits
Documents ==
    {<<s>> : s \in StructStatements}
    \cup SeqsUpTo(ImageStatements
                      \cup {Statement(<<Classed("div", HeaderClass, <<HeaderParts[1]>>),
                                        Legend>>)},
                  MaxStatements)

\* What the add_image calls made for one statement are answered
ParseAnswers ==
    {<<<<"P", "N", "G", "1">>, <<"P", "N", "G", "2">>>>,
     <<<<"P", "N", "G", "2">>, <<"P", "N", "G", "1">>>>,
     <<Missing, <<"P", "N", "G", "2">>>>}

InitParse ==
    /\ pc = "ready"
    /\ document \in Documents
    /\ cursor = 0
    /\ parsed = [raised |-> "", statements |-> <<>>]
    /\ trace = <<>>
    /\ problem_tex = [number |-> 0, raised |-> "", pieces |-> <<>>, tex |-> <<>>]
    /\ EscIdle /\ ColIdle /\ RenIdle /\ SmpIdle /\ UplIdle

\* One turn of the loop of parse_html_statements (lines 342-403): the
\* statement is appended, or AttributeError leaves the function
ParseStatement(answers) ==
    /\ pc \in {"ready", "parsing"}
    /\ cursor < Len(document)
    /\ IF header_raises(select_one(document[cursor + 1], HeaderClass))
       THEN /\ parsed' = [raised |-> "AttributeError", statements |-> <<>>]
            /\ pc' = "raised"
            /\ UNCHANGED trace
       ELSE /\ \E sections \in
                    {convert_sections(
                        section_tags(document[cursor + 1]), section_skips, answers,
                        ResourceCollector(IF cursor = 0 THEN <<>>
                                          ELSE parsed.statements[cursor].resources))} :
                  /\ parsed' = [parsed EXCEPT !.statements =
                                   Append(@, ProblemStatement(
                                                 document[cursor + 1],
                                                 select_one(document[cursor + 1], HeaderClass),
                                                 sections))]
                  /\ trace' = Append(trace, sections.st.calls)
            /\ pc' = "parsing"
    /\ cursor' = cursor + 1
    /\ UNCHANGED <<escVars, colVars, renVars, smpVars, uplVars, document, problem_tex>>

\* return statements (line 404)
ReturnStatements ==
    /\ pc \in {"ready", "parsing"}
    /\ cursor = Len(document)
    /\ pc' = "returned"
    /\ UNCHANGED <<escVars, colVars, renVars, smpVars, parVars, uplVars>>

\* render_problem(document[number], number)
RenderProblem(number) ==
    /\ pc = "ready"
    /\ number \in 1..Len(document)
    /\ problem_tex' = [number |-> number, raised |-> "",
                       pieces |-> problem_pieces(document[number], number),
                       tex |-> render_problem(document[number], number)]
    /\ pc' = "rendered_problem"
    /\ UNCHANGED <<escVars, colVars, renVars, smpVars, uplVars, document, cursor, parsed, trace>>

NextParse ==
    \/ \E answers \in ParseAnswers : ParseStatement(answers)
    \/ ReturnStatements
    \/ \E number \in 1..MaxStatements : RenderProblem(number)

SpecParse == InitParse /\ [][NextParse]_vars

\* Whether the statement has the container of the class
HasPart(stmt, cls) ==
    \E i \in 1..Len(stmt.children) :
        stmt.children[i].kind = "tag" /\ has_class(stmt.children[i], cls)

\* Whether the header of the statement has the container of the class
HasHeaderPart(stmt, cls) ==
    \E i \in 1..Len(stmt.children) :
        /\ stmt.children[i].kind = "tag"
        /\ has_class(stmt.children[i], HeaderClass)
        /\ HasPart(stmt.children[i], cls)

\* The number of the classes whose container the statement has
PartCount(stmt, classes) == Cardinality({cls \in classes : HasPart(stmt, cls)})

\* C11: converting a statement in which an expected container is absent
\* (header, title, time-limit, memory-limit, legend, input specification,
\* output specification, note, samples region) never raises:
\* parse_html_statements and render_problem complete, and the field of an
\* absent container is absent (no title, no limit, no section text, no sample,
\* no piece of the rendered problem).
C11_MissingContainerNeverRaises ==
    /\ parsed.raised = ""
    /\ problem_tex.raised = ""
    /\ \A k \in 1..Len(parsed.statements) :
          LET stmt == document[k]
              ps == parsed.statements[k]
          IN  /\ ~HasHeaderPart(stmt, TitleClass) => ps.original_title = <<>> /\ ps.title = <<>>
              /\ ~HasHeaderPart(stmt, TimeLimitClass) => ps.time_limit_ms = {}
              /\ ~HasHeaderPart(stmt, MemoryLimitClass) => ps.memory_limit_mb = {}
              /\ ~HasHeaderPart(stmt, InputFileClass) => ps.input_file = None
              /\ ~HasHeaderPart(stmt, OutputFileClass) => ps.output_file = None
              /\ PartCount(stmt, {LegendClass}) = 0 => ps.legend_html = None
              /\ ~HasPart(stmt, InputSpecification) => ps.input_spec_html = None
              /\ ~HasPart(stmt, OutputSpecification) => ps.output_spec_html = None
              /\ ~HasPart(stmt, NoteClass) => ps.note_html = None
              /\ ~HasPart(stmt, SampleTests) => ps.samples = <<>>
    /\ pc = "rendered_problem" =>
          LET stmt == document[problem_tex.number]
          IN  /\ Len(problem_tex.pieces)
                    <= 1 + (IF HasPart(stmt, HeaderClass) THEN 1 ELSE 0)
                         + PartCount(stmt, {LegendClass, SampleTests})
                         + 2 * PartCount(stmt, {InputSpecification, OutputSpecification,
                                                NoteClass})
              /\ \A i \in 1..3 :
                    ~HasPart(stmt, SectionLabels[i].cls)
                        => \A j \in 1..Len(problem_tex.pieces) :
                              problem_tex.pieces[j] # SectionLabels[i].label
              /\ ~HasHeaderPart(stmt, TitleClass) =>
                    problem_tex.pieces[1]
                        = <<"\\", "s", "e", "c", "t", "i", "o", "n", "*", "{", "P", "r", "o",
                            "b", "l", "e", "m", " ">> \o str_int(problem_tex.number) \o <<"}">>

\* The sources of the images below a node, in document order
RECURSIVE ImageSources(_)
ImageSources(n) ==
    IF IsImage(n) THEN <<get_str(n, "src")>>
    ELSE concat([i \in 1..Len(n.children) |-> ImageSources(n.children[i])])

\* The sources of the images of the section of a class, wherever the section
\* stands in the statement
SectionSources(stmt, cls) ==
    concat([i \in 1..Len(stmt.children) |->
                IF has_class(stmt.children[i], cls) THEN ImageSources(stmt.children[i])
                ELSE <<>>])

\* The name an add_image call resolved its source to
CallName(c) == resource_name(c.src, Len(c.before))

\* Whether the i-th of the calls is the first that got bytes for its name
FirstWriter(cs, i) ==
    /\ cs[i].outcome # Missing
    /\ \A j \in 1..(i - 1) : cs[j].outcome # Missing => CallName(cs[j]) # CallName(cs[i])

\* C13: parse_html_statements gives each statement a collector of its own,
\* empty at the statement's first add_image call, and converts the legend, the
\* input specification, the output specification and the notes on it, in that
\* order: the resources of a statement are exactly the names its own calls got
\* bytes for, each once, in the order they were first stored and with the
\* bytes of the first call in that order that got bytes for the name, whatever
\* the statements before it have stored.
C13_CollectorPerStatement ==
    /\ parsed.raised = "" => Len(trace) = Len(parsed.statements)
    /\ \A k \in 1..Len(parsed.statements) :
          LET cs == trace[k]
              listed == parsed.statements[k].resources
              first == {i \in 1..Len(cs) : FirstWriter(cs, i)}
          IN  /\ [i \in 1..Len(cs) |-> cs[i].src]
                    = SectionSources(document[k], LegendClass)
                          \o SectionSources(document[k], InputSpecification)
                          \o SectionSources(document[k], OutputSpecification)
                          \o SectionSources(document[k], NoteClass)
              /\ cs # <<>> => cs[1].before = <<>>
              /\ Len(listed) = Cardinality(first)
              /\ \A i \in first :
                    listed[Cardinality({j \in first : j <= i})]
                        = [name |-> CallName(cs[i]), content |-> cs[i].outcome]

\* C13 witness: the first statement refers to a.png in its legend and in its
\* input specification and stored it once, with the bytes the legend got; the
\* second statement refers to a.png too and stored it with its own bytes.
C13_Witness ==
    /\ pc = "returned"
    /\ Len(parsed.statements) = 2
    /\ Len(trace[1]) = 2
    /\ trace[1][1].outcome = <<"P", "N", "G", "1">>
    /\ trace[1][2].outcome = <<"P", "N", "G", "2">>
    /\ parsed.statements[1].resources
          = <<[name |-> SrcLocalA, content |-> <<"P", "N", "G", "1">>]>>
    /\ parsed.statements[2].resources
          = <<[name |-> SrcLocalA, content |-> <<"P", "N", "G", "2">>]>>


(***************************************************************************)
(* upload_to_polygon.py: suffix_from_index, upload_problem and main.       *)
(*                                                                         *)
(* A dict of problems (name -> id) is the sequence of its items in         *)
(* insertion order; an Optional problem id is a set, empty for None.  An   *)
(* API call is answered by the environment: ok is FALSE where              *)
(* PolygonClient.call raises PolygonClientError (a transport error, a      *)
(* response that is not JSON, a status other than OK); a successful        *)
(* problem.create answers the id of the problem and a successful           *)
(* problems.list answers problems that each have a name and an id.         *)
(***************************************************************************)
Alphabet ==
    <<"a", "b", "c", "d", "e", "f", "g", "h", "i", "j", "k", "l", "m",
      "n", "o", "p", "q", "r", "s", "t", "u", "v", "w", "x", "y", "z">>

\* the while loop of suffix_from_index, entered with suffix and current
RECURSIVE suffix_loop(_, _)
suffix_loop(suffix, current) ==
    LET longer == <<Alphabet[(current % 26) + 1]>> \o suffix
        rest == (current \div 26) - 1
    IN  IF rest < 0 THEN longer ELSE suffix_loop(longer, rest)

suffix_from_index(index) == suffix_loop(<<>>, index)

\* f"{args.prefix}-{suffix_from_index(idx)}"
polygon_name(prefix, idx) == prefix \o <<"-">> \o suffix_from_index(idx)

\* d.get(name)
dict_get(d, name) == {d[i].id : i \in {j \in 1..Len(d) : d[j].name = name}}

\* d[name] = id
dict_set(d, name, id) ==
    IF dict_get(d, name) # {}
    THEN [i \in 1..Len(d) |-> IF d[i].name = name THEN [name |-> name, id |-> id] ELSE d[i]]
    ELSE Append(d, [name |-> name, id |-> id])

\* {problem.get("name"): problem.get("id") for problem in existing_problems_list}
RECURSIVE dict_of(_)
dict_of(problem_list) ==
    IF problem_list = <<>> THEN <<>>
    ELSE LET last == problem_list[Len(problem_list)]
         IN  dict_set(dict_of(SubSeq(problem_list, 1, Len(problem_list) - 1)),
                      last.name, last.id)

\* upload_problem, the lookup it starts with: the id known for polygon_name
existing_id(d, name) == IF d = <<>> THEN {} ELSE dict_get(d, name)

\* upload_problem after a failed problem.create, given the answer of
\* problems.list: the id of the first problem of that name, or the create
\* error raised again by the else of the for loop
locate_or_continue(problem_list, name) ==
    LET hits == {i \in 1..Len(problem_list) : problem_list[i].name = name}
    IN  IF hits = {} THEN [raised |-> FALSE, problem_id |-> {}]
        ELSE [raised |-> FALSE,
              problem_id |-> {problem_list[CHOOSE i \in hits : \A j \in hits : i <= j].id}]

locate(problem_list, name) ==
    LET hits == {i \in 1..Len(problem_list) : problem_list[i].name = name}
    IN  IF hits = {} THEN [raised |-> TRUE, problem_id |-> {}]
        ELSE [raised |-> FALSE,
              problem_id |-> {problem_list[CHOOSE i \in hits : \A j \in hits : i <= j].id}]

\* main, the for loop over enumerate(statements) after the statement idx of n
loop_next(idx, n) == IF idx + 1 < n THEN "loop" ELSE "done"

\* main, the handler of a PolygonClientError that left upload_problem
main_except_break(idx, n) == "done"

main_except(idx, n) == loop_next(idx, n)

\* upload_problem: where it stands after the statement is saved, k resources
\* uploaded; after the resources, k samples saved; and after the samples
if_commit(commit_message) ==
    IF commit_message # <<>> THEN [pc |-> "commit", k |-> 0] ELSE [pc |-> "return", k |-> 0]

for_samples(stmt, k, commit_message) ==
    IF k < Len(stmt.samples) THEN [pc |-> "samples", k |-> k] ELSE if_commit(commit_message)

for_resources(stmt, k, commit_message) ==
    IF k < Len(stmt.resources) THEN [pc |-> "resources", k |-> k]
    ELSE for_samples(stmt, 0, commit_message)

\* main's variables once upload_problem is left, by return or by exception
left(u) == [u EXCEPT !.idx = @ + 1, !.problem_id = {}, !.k = 0]

\* the same when the exception is a PolygonClientError, which main notes
raised_in(u) == [left(u) EXCEPT !.failed = @ \cup {u.idx}]

\* main's variables and position when upload_problem moves on to at
moved(u, at) == IF at.pc = "return" THEN left(u) ELSE [u EXCEPT !.k = at.k]

moved_pc(u, at) ==
    IF at.pc = "return" THEN loop_next(u.idx, Len(u.statements)) ELSE at.pc

\* one entry of the log of API calls: client.call(method, ...) made for the
\* problem of that name with these problemId and name, testIndex or message,
\* and what was answered
Called(method, name, problem_id, arg, ok, result) ==
    [method |-> method, problem |-> name, problem_id |-> problem_id, arg |-> arg,
     ok |-> ok, result |-> result]


(***************************************************************************)
(* main run on a file of up to MaxStatements statements.  Of a statement   *)
(* the model keeps what upload_problem loops over and names in its calls:  *)
(* the title, the resources and the samples; the limits and the four HTML  *)
(* sections only fill parameters of problem.updateInfo and                 *)
(* problem.saveStatement.                                                  *)
(***************************************************************************)
Prefix == <<"p">>

PlainStatement == [title |-> <<"S", "u", "m">>, resources |-> <<>>, samples |-> <<>>]

FullStatement ==
    [title |-> <<"M", "a", "x">>,
     resources |-> <<[name |-> SrcLocalA, content |-> <<"P", "N", "G", "1">>],
                     [name |-> SrcLocalImage2, content |-> <<"P", "N", "G", "2">>]>>,
     samples |-> <<[input_text |-> <<"1">>, output_text |-> <<"2">>],
                   [input_text |-> <<"3">>, output_text |-> <<"4">>]>>]

UploadStatements == SeqsUpTo({PlainStatement, FullStatement}, MaxStatements)

\* --commit-message: empty, or a message
CommitMessages == {<<>>, <<"m", "s", "g">>}

\* What a successful problems.list answers: no problem, the problem of the
\* first statement, the problem of the second after a problem of another name
ProblemLists ==
    {<<>>,
     <<[name |-> polygon_name(Prefix, 0), id |-> 7]>>,
     <<[name |-> <<"q">>, id |-> 9], [name |-> polygon_name(Prefix, 1), id |-> 8]>>}

\* The ids a successful problem.create answers
CreatedIds == {21}

InitUpload ==
    /\ pc = "main"
    /\ existing_problems = <<>>
    /\ api_log = <<>>
    /\ attempts = <<>>
    /\ \E statements \in UploadStatements, commit_message \in CommitMessages :
          upload = [statements |-> statements, commit_message |-> commit_message,
                    idx |-> 0, problem_id |-> {}, k |-> 0, failed |-> {},
                    listed |-> [ok |-> FALSE, problems |-> <<>>]]
    /\ EscIdle /\ ColIdle /\ RenIdle /\ SmpIdle /\ ParIdle

\* main, lines 557-567: no statement ends the run; else problems.list is
\* called and its answer, or {} when it raised, becomes existing_problems
ListProblems(ok, problem_list) ==
    /\ pc = "main"
    /\ IF upload.statements = <<>>
       THEN /\ pc' = "exit"
            /\ UNCHANGED <<existing_problems, upload>>
       ELSE /\ existing_problems' = IF ok THEN dict_of(problem_list) ELSE <<>>
            /\ upload' = [upload EXCEPT !.listed =
                             [ok |-> ok, problems |-> IF ok THEN problem_list ELSE <<>>]]
            /\ pc' = "loop"
    /\ UNCHANGED <<api_log, attempts, escVars, colVars, renVars, smpVars, parVars>>

\* main, lines 569-572, and upload_problem, lines 427-431: the next statement
\* is named and upload_problem is entered, looking the name up
BeginUpload ==
    /\ pc = "loop"
    /\ upload.idx < Len(upload.statements)
    /\ \E id \in {existing_id(existing_problems, polygon_name(Prefix, upload.idx))} :
          /\ upload' = [upload EXCEPT !.problem_id = id]
          /\ pc' = IF id = {} THEN "create" ELSE "updateInfo"
    /\ attempts' = Append(attempts, polygon_name(Prefix, upload.idx))
    /\ api_log' = <<>>
    /\ UNCHANGED <<existing_problems, escVars, colVars, renVars, smpVars, parVars>>

\* upload_problem, lines 433-442: problem.create
CreateProblem(ok, id) ==
    /\ pc = "create"
    /\ \E name \in {polygon_name(Prefix, upload.idx)} :
          /\ api_log' = Append(api_log,
                               Called("problem.create", name, {}, name, ok,
                                      IF ok THEN <<[name |-> name, id |-> id]>> ELSE <<>>))
          /\ IF ok
             THEN /\ upload' = [upload EXCEPT !.problem_id = {id}]
                  /\ existing_problems' = dict_set(existing_problems, name, id)
                  /\ pc' = "updateInfo"
             ELSE /\ pc' = "locate"
                  /\ UNCHANGED <<upload, existing_problems>>
    /\ UNCHANGED <<attempts, escVars, colVars, renVars, smpVars, parVars>>

\* upload_problem, lines 443-460: problems.list after a failed problem.create
LocateProblem(ok, problem_list) ==
    /\ pc = "locate"
    /\ \E name \in {polygon_name(Prefix, upload.idx)} :
          /\ api_log' = Append(api_log,
                               Called("problems.list", name, {}, <<>>, ok,
                                      IF ok THEN problem_list ELSE <<>>))
          /\ \E found \in {locate(problem_list, name)} :
                IF ~ok \/ found.raised
                THEN /\ upload' = raised_in(upload)
                     /\ pc' = main_except(upload.idx, Len(upload.statements))
                     /\ UNCHANGED existing_problems
                ELSE /\ upload' = [upload EXCEPT !.problem_id = found.problem_id]
                     /\ existing_problems' =
                            IF found.problem_id = {} THEN existing_problems
                            ELSE dict_set(existing_problems, name,
                                          CHOOSE id \in found.problem_id : TRUE)
                     /\ pc' = "updateInfo"
    /\ UNCHANGED <<attempts, escVars, colVars, renVars, smpVars, parVars>>

\* upload_problem, lines 462-470: problem.updateInfo
UpdateInfo(ok) ==
    /\ pc = "updateInfo"
    /\ api_log' = Append(api_log,
                         Called("problem.updateInfo", polygon_name(Prefix, upload.idx),
                                upload.problem_id, <<>>, ok, <<>>))
    /\ IF ok
       THEN /\ pc' = "saveStatement"
            /\ UNCHANGED upload
       ELSE /\ upload' = raised_in(upload)
            /\ pc' = main_except(upload.idx, Len(upload.statements))
    /\ UNCHANGED <<existing_problems, attempts, escVars, colVars, renVars, smpVars, parVars>>

\* upload_problem, lines 472-486: problem.saveStatement
SaveStatement(ok) ==
    /\ pc = "saveStatement"
    /\ \E stmt \in {upload.statements[upload.idx + 1]} :
          /\ api_log' = Append(api_log,
                               Called("problem.saveStatement",
                                      polygon_name(Prefix, upload.idx),
                                      upload.problem_id, stmt.title, ok, <<>>))
          /\ IF ok
             THEN \E at \in {for_resources(stmt, 0, upload.commit_message)} :
                     /\ upload' = moved(upload, at)
                     /\ pc' = moved_pc(upload, at)
             ELSE /\ upload' = raised_in(upload)
                  /\ pc' = main_except(upload.idx, Len(upload.statements))
    /\ UNCHANGED <<existing_problems, attempts, escVars, colVars, renVars, smpVars, parVars>>

\* upload_problem, lines 488-494: problem.saveStatementResource for the next
\* resource
SaveStatementResource(ok) ==
    /\ pc = "resources"
    /\ \E stmt \in {upload.statements[upload.idx + 1]} :
          /\ api_log' = Append(api_log,
                               Called("problem.saveStatementResource",
                                      polygon_name(Prefix, upload.idx), upload.problem_id,
                                      stmt.resources[upload.k + 1].name, ok, <<>>))
          /\ IF ok
             THEN \E at \in {for_resources(stmt, upload.k + 1, upload.commit_message)} :
                     /\ upload' = moved(upload, at)
                     /\ pc' = moved_pc(upload, at)
             ELSE /\ upload' = raised_in(upload)
                  /\ pc' = main_except(upload.idx, Len(upload.statements))
    /\ UNCHANGED <<existing_problems, attempts, escVars, colVars, renVars, smpVars, parVars>>

\* upload_problem, lines 496-509: problem.saveTest for the next sample, whose
\* testIndex counts from 1
SaveTest(ok) ==
    /\ pc = "samples"
    /\ \E stmt \in {upload.statements[upload.idx + 1]} :
          /\ api_log' = Append(api_log,
                               Called("problem.saveTest", polygon_name(Prefix, upload.idx),
                                      upload.problem_id, str_int(upload.k + 1), ok, <<>>))
          /\ IF ok
             THEN \E at \in {for_samples(stmt, upload.k + 1, upload.commit_message)} :
                     /\ upload' = moved(upload, at)
                     /\ pc' = moved_pc(upload, at)
             ELSE /\ upload' = raised_in(upload)
                  /\ pc' = main_except(upload.idx, Len(upload.statements))
    /\ UNCHANGED <<existing_problems, attempts, escVars, colVars, renVars, smpVars, parVars>>

\* upload_problem, lines 511-516: problem.commitChanges
CommitChanges(ok) ==
    /\ pc = "commit"
    /\ api_log' = Append(api_log,
                         Called("problem.commitChanges", polygon_name(Prefix, upload.idx),
                                upload.problem_id, upload.commit_message, ok, <<>>))
    /\ IF ok
       THEN /\ upload' = left(upload)
            /\ pc' = loop_next(upload.idx, Len(upload.statements))
       ELSE /\ upload' = raised_in(upload)
            /\ pc' = main_except(upload.idx, Len(upload.statements))
    /\ UNCHANGED <<existing_problems, attempts, escVars, colVars, renVars, smpVars, parVars>>

NextUpload ==
    \/ \E ok \in BOOLEAN, problem_list \in ProblemLists : ListProblems(ok, problem_list)
    \/ BeginUpload
    \/ \E ok \in BOOLEAN, id \in CreatedIds : CreateProblem(ok, id)
    \/ \E ok \in BOOLEAN, problem_list \in ProblemLists : LocateProblem(ok, problem_list)
    \/ \E ok \in BOOLEAN : UpdateInfo(ok)
    \/ \E ok \in BOOLEAN : SaveStatement(ok)
    \/ \E ok \in BOOLEAN : SaveStatementResource(ok)
    \/ \E ok \in BOOLEAN : SaveTest(ok)
    \/ \E ok \in BOOLEAN : CommitChanges(ok)

SpecUpload == InitUpload /\ [][NextUpload]_vars

\* The same run where every API call made is answered, with a result or with
\* an error
SpecUploadFair == SpecUpload /\ WF_vars(NextUpload)


\* The calls of a log made once the id of the problem is determined
IsUpdateCall(entry) == entry.method \notin {"problem.create", "problems.list"}

UpdateCalls(log) == SelectSeq(log, IsUpdateCall)

\* The calls a statement is uploaded by, in order, each with what names its
\* object: the resource name, the testIndex, the commit message
ExpectedCalls(stmt, commit_message) ==
    <<[method |-> "problem.updateInfo", arg |-> <<>>],
      [method |-> "problem.saveStatement", arg |-> stmt.title]>>
    \o [i \in 1..Len(stmt.resources) |->
           [method |-> "problem.saveStatementResource", arg |-> stmt.resources[i].name]]
    \o [i \in 1..Len(stmt.samples) |-> [method |-> "problem.saveTest", arg |-> str_int(i)]]
    \o (IF commit_message = <<>> THEN <<>>
        ELSE <<[method |-> "problem.commitChanges", arg |-> commit_message]>>)

\* An API call answered that the problem of this name has this id: the
\* problems.list of main, or problem.create or problems.list in upload_problem
IdYielded(name, id) ==
    \/ \E i \in 1..Len(upload.listed.problems) :
          upload.listed.problems[i] = [name |-> name, id |-> id]
    \/ \E j \in 1..Len(api_log) :
          /\ api_log[j].ok
          /\ ~IsUpdateCall(api_log[j])
          /\ \E i \in 1..Len(api_log[j].result) :
                api_log[j].result[i] = [name |-> name, id |-> id]

PolygonNames ==
    [i \in 1..Len(upload.statements) |-> Prefix \o <<"-">> \o suffix_from_index(i - 1)]

\* C16: at any time the uploads attempted are those of the first statements
\* of the file, once each, in document order, each under its name; and the
\* run comes to a point from which every statement has been attempted, whether
\* earlier uploads or the problems.list call of main failed or not.
C16_EveryStatementAttempted ==
    /\ [](/\ Len(attempts) <= Len(upload.statements)
          /\ attempts = SubSeq(PolygonNames, 1, Len(attempts)))
    /\ <>[](attempts = PolygonNames)

\* C16 witness: the run is over, the problems.list call of main failed, the
\* upload of the first statement failed and the second was attempted after it.
C16_Witness ==
    /\ pc = "done"
    /\ ~upload.listed.ok
    /\ upload.failed = {0}
    /\ attempts = <<Prefix \o <<"-", "a">>, Prefix \o <<"-", "b">>>>

=============================================================================
